---- MODULE Spec2Model ----
(***************************************************************************)
(* Model of lib/controllers/boxesController.js: the measurement export     *)
(* handlers getData and getDataMulti (request validation, time window,     *)
(* column set, query predicate, sidecar) and the piped stream they open    *)
(* (cursor -> transformer -> stringifier -> response).                     *)
(***************************************************************************)
EXTENDS Integers, Sequences, FiniteSets, TLC

(***************************************************************************)
(* Bounds of the model.  The three numbers of the stream machinery are the *)
(* program's own (10000, 500, 16) scaled down so that every case is        *)
(* reached: rows beyond the limit, several batches, full stage buffers.    *)
(***************************************************************************)
\* number of measurement rows in the store
MaxRows == 5
\* queryLimit of getData (10000 in the source, line 273), scaled
QueryLimit == 2
\* batchSize of both cursors (500 in the source, lines 283 and 442), scaled
BatchSize == 2
\* high-water mark of every stream stage (16 objects in Node), scaled
HighWaterMark == 2
\* the instant at which the request is resolved, in hours
Now == 1000

\* the most measurements one request may carry (2500), scaled
DecodeCap == 3

\* what is subtracted from to-date when from-date is omitted: hours, days
GetDataDefaultHours == 48
GetDataMultiDefaultDays == 15
\* findAllBoxes: the hours before and after a single date
FindAllBoxesHours == 4

(***************************************************************************)
(* Values.  Every value of the program is a record here, so that values of *)
(* different JavaScript types can be compared: undefined, a string (its    *)
(* text and whether it carries surrounding whitespace, which is all that   *)
(* trim() and the truthiness tests look at), a number, a moment, a Date,   *)
(* an error.                                                               *)
(***************************************************************************)
Absent == [undefined |-> TRUE]
Str(core) == [ws |-> FALSE, core |-> core]
Padded(core) == [ws |-> TRUE, core |-> core]
Num(n) == [num |-> n]
Bool(b) == [bool |-> b]
Moment(t) == [moment |-> t]
Date(t) == [date |-> t]
Iso(t) == [iso |-> t]
Garbage == [junk |-> "not-a-date"]
Err(type, msg) == [type |-> type, msg |-> msg]

IsStr(v) == DOMAIN v = {"ws", "core"}
Trim(s) == [ws |-> FALSE, core |-> s.core]
\* JavaScript truthiness: undefined, '', 0 and false are falsy
Truthy(v) ==
  IF IsStr(v) THEN v.ws \/ v.core # "" ELSE v \notin {Absent, Num(0), Bool(FALSE)}

(***************************************************************************)
(* Time-window resolver: utils.parseTimestamp, utils.parseTimeParameter    *)
(* and utils.validateTimeParameters, and moment's subtract.  A raw         *)
(* timestamp is text that denotes an instant, Iso(t), or text that denotes *)
(* none.  Instants are counted in hours.                                   *)
(***************************************************************************)
isMoment(v) == DOMAIN v = {"moment"}

parseTimestamp(raw) ==
  IF DOMAIN raw = {"iso"} THEN Moment(raw.iso)
  ELSE IF DOMAIN raw = {"date"} THEN Moment(raw.date)
  ELSE Garbage

parseTimeParameter(params, paramName, defaultValue) ==
  IF params[paramName] = Absent THEN defaultValue
  ELSE IF isMoment(parseTimestamp(params[paramName]))
       THEN parseTimestamp(params[paramName])
       ELSE Err("InvalidArgumentError", paramName)

validateTimeParameters(toDate, fromDate) ==
  IF fromDate.moment < toDate.moment THEN Absent
  ELSE Err("InvalidArgumentError", "Invalid time frame specified")

subtract(m, hours) == Moment(m.moment - hours)

\* requestUtils.getRequestedFormat(req, allowed, default)
getRequestedFormat(params, allowed, default) ==
  IF params["format"] = Absent THEN default
  ELSE IF params["format"] \in allowed THEN params["format"]
  ELSE Absent

\* requestUtils.getDelimiter(req)
getDelimiter(params) ==
  IF params["delimiter"] = Str("semicolon") THEN Str(";") ELSE Str(",")

(***************************************************************************)
(* getData, lines 214-235: the window and the format, or the error handed  *)
(* to next().                                                              *)
(***************************************************************************)
getDataToDate(params) == parseTimeParameter(params, "to-date", Moment(Now))

getDataFromDate(params, toDate) ==
  parseTimeParameter(params, "from-date", subtract(toDate, GetDataDefaultHours))

\* a getData that does not look at what validateTimeParameters returns
getDataCheckNoValidate(params) ==
  LET toDate == getDataToDate(params) IN
  IF ~isMoment(toDate) THEN [error |-> toDate]
  ELSE LET fromDate == getDataFromDate(params, toDate) IN
    IF ~isMoment(fromDate) THEN [error |-> fromDate]
    ELSE LET format == getRequestedFormat(params, {Str("json"), Str("csv")}, Str("json")) IN
      IF format = Absent THEN [error |-> Err("InvalidArgumentError", "Invalid format")]
      ELSE [fromDate |-> fromDate, toDate |-> toDate, format |-> format]

getDataCheck(params) ==
  LET toDate == getDataToDate(params) IN
  IF ~isMoment(toDate) THEN [error |-> toDate]
  ELSE LET fromDate == getDataFromDate(params, toDate) IN
    IF ~isMoment(fromDate) THEN [error |-> fromDate]
    ELSE LET timesValid == validateTimeParameters(toDate, fromDate) IN
      IF timesValid # Absent THEN [error |-> timesValid]
      ELSE LET format == getRequestedFormat(params, {Str("json"), Str("csv")}, Str("json")) IN
        IF format = Absent THEN [error |-> Err("InvalidArgumentError", "Invalid format")]
        ELSE [fromDate |-> fromDate, toDate |-> toDate, format |-> format]

(***************************************************************************)
(* getDataMulti, lines 304-385: the window, the column set and the query   *)
(* predicate, checked in the order of the source; the first failure is the *)
(* error handed to next().                                                 *)
(***************************************************************************)
GET_DATA_MULTI_DEFAULT_COLUMNS == <<"createdAt", "value", "lat", "lng">>
GET_DATA_MULTI_ALLOWED_COLUMNS ==
  {"createdAt", "value", "lat", "lng", "unit", "boxId", "sensorId",
   "phenomenon", "sensorType", "boxName", "exposure"}

\* the texts that trim() turns into ''
Whitespace == {"", " "}

getDataMultiToDate(params) == parseTimeParameter(params, "to-date", Moment(Now))

getDataMultiFromDate(params, toDate) ==
  parseTimeParameter(params, "from-date",
                     subtract(toDate, GetDataMultiDefaultDays * 24))

\* lines 308-324
getDataMultiWindow(params) ==
  LET toDate == getDataMultiToDate(params) IN
  IF ~isMoment(toDate) THEN [error |-> toDate]
  ELSE LET fromDate == getDataMultiFromDate(params, toDate) IN
    IF ~isMoment(fromDate) THEN [error |-> fromDate]
    ELSE LET timesValid == validateTimeParameters(toDate, fromDate) IN
      IF timesValid # Absent THEN [error |-> timesValid]
      ELSE [fromDate |-> fromDate, toDate |-> toDate]

\* columnsParam.trim() !== '' for a parameter given as its comma-separated parts
ColumnsParamBlank(columnsParam) ==
  Len(columnsParam.parts) = 1 /\ columnsParam.parts[1] \in Whitespace

\* a column check that looks at the first column only
getDataMultiColumnsFirstOnly(params) ==
  LET columnsParam == params["columns"] IN
  IF columnsParam # Absent /\ ~ColumnsParamBlank(columnsParam)
  THEN LET columns == columnsParam.parts IN
       IF columns[1] \notin GET_DATA_MULTI_ALLOWED_COLUMNS
       THEN [error |-> Err("UnprocessableEntityError", "illegal columns parameter")]
       ELSE [columns |-> columns]
  ELSE [columns |-> GET_DATA_MULTI_DEFAULT_COLUMNS]

\* lines 328-335
getDataMultiColumns(params) ==
  LET columnsParam == params["columns"] IN
  IF columnsParam # Absent /\ ~ColumnsParamBlank(columnsParam)
  THEN LET columns == columnsParam.parts IN
       IF \E i \in 1..Len(columns) : columns[i] \notin GET_DATA_MULTI_ALLOWED_COLUMNS
       THEN [error |-> Err("UnprocessableEntityError", "illegal columns parameter")]
       ELSE [columns |-> columns]
  ELSE [columns |-> GET_DATA_MULTI_DEFAULT_COLUMNS]

\* a ring whose points are [bbox[j], bbox[i]], latitude first
bboxPolygonLatLng(bbox) ==
  [type |-> "Polygon",
   coordinates |-> << << <<bbox[2], bbox[1]>>, <<bbox[4], bbox[1]>>,
                         <<bbox[4], bbox[3]>>, <<bbox[2], bbox[3]>>,
                         <<bbox[2], bbox[1]>> >> >>]

\* lines 356-371: the bounds as a closed ring of [bbox[i], bbox[j]] points
bboxPolygon(bbox) ==
  [type |-> "Polygon",
   coordinates |-> << << <<bbox[1], bbox[2]>>, <<bbox[1], bbox[4]>>,
                         <<bbox[3], bbox[4]>>, <<bbox[3], bbox[2]>>,
                         <<bbox[1], bbox[2]>> >> >>]

\* a selection that lets the box ids win when both are given
getDataMultiSelectionLenient(r) ==
  IF r.boxId # Absent \/ r.bbox # Absent
  THEN IF r.boxId # Absent
       THEN [ids |-> [in |-> r.boxId.parts], geometry |-> Absent]
       ELSE [ids |-> Absent, geometry |-> [geoWithin |-> bboxPolygon(r.bbox.bounds)]]
  ELSE [error |-> Err("BadRequestError", "please specify either boxId or bbox")]

\* lines 347-375
getDataMultiSelection(r) ==
  IF r.boxId # Absent /\ r.bbox # Absent
  THEN [error |-> Err("BadRequestError", "please specify only boxId or bbox")]
  ELSE IF r.boxId # Absent \/ r.bbox # Absent
  THEN IF r.boxId # Absent
       THEN [ids |-> [in |-> r.boxId.parts], geometry |-> Absent]
       ELSE [ids |-> Absent, geometry |-> [geoWithin |-> bboxPolygon(r.bbox.bounds)]]
  ELSE [error |-> Err("BadRequestError", "please specify either boxId or bbox")]

\* lines 377-385
getDataMultiExposure(params) ==
  IF Truthy(params["exposure"])
  THEN LET exposureParam == Trim(params["exposure"]) IN
       IF exposureParam = Str("indoor") \/ exposureParam = Str("outdoor")
       THEN [exposure |-> exposureParam]
       ELSE [error |-> Err("UnprocessableEntityError",
                           "exposure column should be indoor or outdoor")]
  ELSE [exposure |-> Absent]

\* a predicate builder that checks the exposure before the selection
getDataMultiQueryExposureFirst(r) ==
  LET phenomenon == r.params["phenomenon"] IN
  IF Truthy(phenomenon) /\ Trim(phenomenon) # Str("")
  THEN LET exp == getDataMultiExposure(r.params) IN
       IF "error" \in DOMAIN exp THEN exp
       ELSE LET sel == getDataMultiSelection(r) IN
            IF "error" \in DOMAIN sel THEN sel
            ELSE [phenomenon |-> Trim(phenomenon),
                  queryParams |-> [title |-> Trim(phenomenon), ids |-> sel.ids,
                                   geometry |-> sel.geometry, exposure |-> exp.exposure]]
  ELSE [error |-> Err("BadRequestError", "invalid phenomenon parameter")]

\* lines 337-385
getDataMultiQuery(r) ==
  LET phenomenon == r.params["phenomenon"] IN
  IF Truthy(phenomenon) /\ Trim(phenomenon) # Str("")
  THEN LET sel == getDataMultiSelection(r) IN
       IF "error" \in DOMAIN sel THEN sel
       ELSE LET exp == getDataMultiExposure(r.params) IN
            IF "error" \in DOMAIN exp THEN exp
            ELSE [phenomenon |-> Trim(phenomenon),
                  queryParams |-> [title |-> Trim(phenomenon), ids |-> sel.ids,
                                   geometry |-> sel.geometry, exposure |-> exp.exposure]]
  ELSE [error |-> Err("BadRequestError", "invalid phenomenon parameter")]

\* lines 308-385
getDataMultiCheck(r) ==
  LET win == getDataMultiWindow(r.params) IN
  IF "error" \in DOMAIN win THEN win
  ELSE LET cols == getDataMultiColumns(r.params) IN
       IF "error" \in DOMAIN cols THEN cols
       ELSE LET q == getDataMultiQuery(r) IN
            IF "error" \in DOMAIN q THEN q
            ELSE [fromDate |-> win.fromDate, toDate |-> win.toDate,
                  delim |-> getDelimiter(r.params), columns |-> cols.columns,
                  phenomenon |-> q.phenomenon, queryParams |-> q.queryParams]

(***************************************************************************)
(* The storage collaborator: the boxes with their sensors, the measurement *)
(* rows, and what Box.find and Measurement.find return for a predicate.    *)
(* Box coordinates are stored as <<lng, lat>>.                             *)
(***************************************************************************)
Sensor(id, title) ==
  [_id |-> id, title |-> Str(title), unit |-> Str("unit"), sensorType |-> Str("type")]

Boxes ==
  << [_id |-> "b1", name |-> Str("one"), exposure |-> Str("indoor"),
      coordinates |-> <<7, 51>>,
      sensors |-> <<Sensor("s1", "Temperatur"), Sensor("s2", "Luftfeuchte")>>],
     [_id |-> "b2", name |-> Str("two"), exposure |-> Str("outdoor"),
      coordinates |-> <<13, 52>>,
      sensors |-> <<Sensor("s3", "Temperatur")>>] >>

\* the i-th stored measurement; its value names it
StoredRow(i) ==
  [sensor_id |-> IF i = 2 THEN "s3" ELSE IF i = 4 THEN "s2" ELSE "s1",
   createdAt |-> Date(IF i = 1 THEN Now - 100 ELSE Now - i + 1),
   value |-> Num(i)]

StoredRows(n) == [i \in 1..n |-> StoredRow(i)]

Min(S) == CHOOSE x \in S : \A y \in S : x <= y
Max(S) == CHOOSE x \in S : \A y \in S : x >= y

\* $geoWithin of a point in the ring of a polygon whose sides follow the axes
GeoWithin(point, polygon) ==
  LET ring == polygon.coordinates[1]
      xs == {ring[i][1] : i \in 1..Len(ring)}
      ys == {ring[i][2] : i \in 1..Len(ring)}
  IN /\ Min(xs) <= point[1] /\ point[1] <= Max(xs)
     /\ Min(ys) <= point[2] /\ point[2] <= Max(ys)

BoxMatches(b, q) ==
  /\ \E j \in 1..Len(b.sensors) : b.sensors[j].title = q.title
  /\ q.ids # Absent => \E k \in 1..Len(q.ids.in) : q.ids.in[k] = b._id
  /\ q.geometry # Absent => GeoWithin(b.coordinates, q.geometry.geoWithin)
  /\ q.exposure # Absent => b.exposure = q.exposure

BoxFind(q) ==
  LET Test(b) == BoxMatches(b, q) IN SelectSeq(Boxes, Test)

\* a cursor without limit()
LimitNone(rows, n) == rows

Limit(rows, n) == IF Len(rows) > n THEN SubSeq(rows, 1, n) ELSE rows

\* lines 275-282: sensor_id, createdAt $gte .. $lte, fields createdAt and value,
\* limit(queryLimit)
getDataFind(rows, sensorId, fromDate, toDate) ==
  LET Test(m) == /\ m.sensor_id = sensorId
                 /\ m.createdAt.date >= fromDate.moment
                 /\ m.createdAt.date <= toDate.moment
      found == SelectSeq(rows, Test)
  IN Limit([i \in 1..Len(found) |->
              [createdAt |-> found[i].createdAt, value |-> found[i].value]],
           QueryLimit)

\* a cursor over the measurements of every sensor
getDataMultiFindAnySensor(rows, sensorIds, fromDate, toDate) ==
  LET Test(m) == /\ m.createdAt.date > fromDate.moment
                 /\ m.createdAt.date < toDate.moment
  IN SelectSeq(rows, Test)

\* lines 432-441: sensor_id $in the sidecar's keys, createdAt $gt .. $lt
getDataMultiFind(rows, sensorIds, fromDate, toDate) ==
  LET Test(m) == /\ m.sensor_id \in sensorIds
                 /\ m.createdAt.date > fromDate.moment
                 /\ m.createdAt.date < toDate.moment
  IN SelectSeq(rows, Test)

(***************************************************************************)
(* Sidecar, lines 391-409: for every sensor of the found boxes whose title *)
(* is the phenomenon, the sensor with the columns of its box added, keyed  *)
(* by the sensor's id; a later sensor with the same id replaces an earlier *)
(* one.                                                                    *)
(***************************************************************************)
\* an entry that takes the box fields from the first box of the collection
SidecarEntryFirstBox(box, sensor) ==
  [_id |-> Str(sensor._id), title |-> sensor.title, unit |-> sensor.unit,
   sensorType |-> sensor.sensorType,
   lat |-> Num(box.coordinates[1]), lng |-> Num(box.coordinates[2]),
   boxId |-> Str(Boxes[1]._id), boxName |-> Boxes[1].name,
   exposure |-> Boxes[1].exposure,
   sensorId |-> Str(sensor._id), phenomenon |-> sensor.title]

SidecarEntry(box, sensor) ==
  [_id |-> Str(sensor._id), title |-> sensor.title, unit |-> sensor.unit,
   sensorType |-> sensor.sensorType,
   lat |-> Num(box.coordinates[1]), lng |-> Num(box.coordinates[2]),
   boxId |-> Str(box._id), boxName |-> box.name, exposure |-> box.exposure,
   sensorId |-> Str(sensor._id), phenomenon |-> sensor.title]

RECURSIVE SidecarOfSensors(_, _, _, _)
SidecarOfSensors(box, j, phenomenon, acc) ==
  IF j > Len(box.sensors) THEN acc
  ELSE SidecarOfSensors(box, j + 1, phenomenon,
         IF box.sensors[j].title = phenomenon
         THEN (box.sensors[j]._id :> SidecarEntry(box, box.sensors[j])) @@ acc
         ELSE acc)

RECURSIVE SidecarOfBoxes(_, _, _, _)
SidecarOfBoxes(boxData, i, phenomenon, acc) ==
  IF i > Len(boxData) THEN acc
  ELSE SidecarOfBoxes(boxData, i + 1, phenomenon,
                      SidecarOfSensors(boxData[i], 1, phenomenon, acc))

EmptyMap == [x \in {} |-> Absent]

buildSidecar(boxData, phenomenon) == SidecarOfBoxes(boxData, 1, phenomenon, EmptyMap)

(***************************************************************************)
(* Row transforms and serializers.  A row is a function from field names   *)
(* to values; a field that is not set reads as undefined.                  *)
(***************************************************************************)
Get(data, col) == IF col \in DOMAIN data THEN data[col] ELSE Absent
Set(data, col, v) == (col :> v) @@ data

\* new Date(d).toISOString() and moment's toISOString(): throw on an invalid date
toISOString(v) ==
  IF isMoment(parseTimestamp(v)) THEN Iso(parseTimestamp(v).moment)
  ELSE Err("RangeError", "Invalid time value")

\* lines 239-243
csvTransformer(data) ==
  LET iso == toISOString(Get(data, "createdAt")) IN
  IF DOMAIN iso = {"iso"} THEN [ok |-> Set(data, "createdAt", iso)]
  ELSE [error |-> iso]

\* lines 415-419, from column k on
RECURSIVE fillColumns(_, _, _, _)
fillColumns(data, cols, k, sidecar) ==
  IF k > Len(cols) THEN [ok |-> data]
  ELSE IF ~Truthy(Get(data, cols[k]))
       THEN IF data["sensor_id"] \in DOMAIN sidecar
            THEN fillColumns(Set(data, cols[k], Get(sidecar[data["sensor_id"]], cols[k])),
                             cols, k + 1, sidecar)
            ELSE [error |-> Err("TypeError", "Cannot read property of undefined")]
       ELSE fillColumns(data, cols, k + 1, sidecar)

\* lines 412-422
transformer(data, cols, sidecar) ==
  LET iso == toISOString(Get(data, "createdAt")) IN
  IF DOMAIN iso = {"iso"} THEN fillColumns(Set(data, "createdAt", iso), cols, 1, sidecar)
  ELSE [error |-> iso]

\* what the stage configured as st makes of one raw row
Transform(st, data) ==
  IF st.kind = "getData" THEN csvTransformer(data)
  ELSE transformer(data, st.columns, st.sensors)

\* csvstringify({columns, header: 1, delimiter}): the header before the first line
CsvHeader(sf) == [kind |-> "header", fields |-> sf.columns, delim |-> sf.delim]
\* a stringifier that writes the fields of a line last column first
CsvLineReversed(sf, data) ==
  [kind |-> "line",
   fields |-> [k \in 1..Len(sf.columns) |->
                 Get(data, sf.columns[Len(sf.columns) + 1 - k])],
   delim |-> sf.delim, row |-> data]

CsvLine(sf, data) ==
  [kind |-> "line", fields |-> [k \in 1..Len(sf.columns) |-> Get(data, sf.columns[k])],
   delim |-> sf.delim, row |-> data]

\* a stringifier that writes the separator before every record, the first included
JsonRecordNoOpen(first, data) == [kind |-> "json", pre |-> ",", row |-> data]

\* jsonstringify({open: '[', close: ']'}): open before the first record, ',' between
JsonRecord(first, data) ==
  [kind |-> "json", pre |-> IF first THEN "[" ELSE ",", row |-> data]

\* the chunks the stringifier pushes for one record, written records so far
Stringify(sf, written, data) ==
  IF sf.format = "csv"
  THEN IF written = 0 THEN <<CsvHeader(sf), CsvLine(sf, data)>> ELSE <<CsvLine(sf, data)>>
  ELSE <<JsonRecord(written = 0, data)>>

\* a stringifier that pushes nothing when its input has ended
FlushNothing(sf, written) == <<>>

\* the chunks the stringifier pushes when its input has ended
Flush(sf, written) ==
  IF sf.format = "csv"
  THEN IF written = 0 THEN <<CsvHeader(sf)>> ELSE <<>>
  ELSE <<[kind |-> "close", text |-> IF written = 0 THEN "[]" ELSE "]"]>>

IsRecordChunk(c) == c.kind \in {"line", "json"}

(***************************************************************************)
(* State.                                                                  *)
(***************************************************************************)
VARIABLES
  req,          \* the request: handler, params, boxId, bbox
  store,        \* the stored measurement rows
  pc,           \* "idle", "boxFind", "streaming", "rejected", "finished", "crashed"
  nextCalls,    \* the errors handed to next(), in order
  notified,     \* the errors handed to Honeybadger.notify, in order
  headers,      \* the response headers set
  reads,        \* the storage reads issued, in order
  pending,      \* getDataMulti's locals while Box.find is awaited
  tf,           \* the row transform stage: handler, columns, sidecar
  sf,           \* the stringifier stage: format, columns, delimiter
  qry,          \* the predicate of the measurement cursor
  result,       \* the rows the measurement cursor will deliver
  fetched,      \* how many of them the driver has received
  fetches,      \* how many batch reads were issued
  fetching,     \* a batch read is in flight
  batch,        \* rows of the current batch not yet pushed by the cursor
  cursorState,  \* "none", "open", "exhausted", "closed"
  curBuf,       \* rows buffered in the cursor stream
  trBuf,        \* rows buffered in the transformer
  strBuf,       \* chunks buffered in the stringifier
  resBuf,       \* chunks handed to the response and not yet drained
  sent,         \* chunks the client has received
  written,      \* records the stringifier has serialized
  transformed,  \* rows the transformer has been given
  ended,        \* end of input: 0 none, 1 cursor, 2 transformer, 3 stringifier, 4 response
  piped,        \* which pipes are still attached: cursor->transformer, stringifier->res
  sink,         \* "open", or "closed" once the client is gone
  saved,        \* the measurements handed to box.saveMeasurement(sArray), in order
  responses,    \* the res.send calls: status and body, in order
  fn,           \* a function applied on its own: its arguments and its result
  other         \* a second request in progress: its own req, pc, ..., responses

\* what the export handlers never write
ingestVars == <<saved, responses>>
reqVars == <<req, store, ingestVars, fn, other>>
outVars == <<nextCalls, notified, headers, reads, pending>>
stageVars == <<tf, sf>>
cursorVars == <<qry, result, fetched, fetches, fetching, batch, cursorState>>
bufVars == <<curBuf, trBuf, strBuf, resBuf, sent, written, transformed>>
flowVars == <<ended, piped, sink>>
vars == <<reqVars, pc, outVars, stageVars, cursorVars, bufVars, flowVars>>

NoStage == [kind |-> "none"]

InitProgram ==
  /\ pc = "idle"
  /\ nextCalls = <<>> /\ notified = <<>> /\ headers = {} /\ reads = <<>>
  /\ pending = Absent
  /\ tf = NoStage /\ sf = NoStage
  /\ qry = Absent
  /\ result = <<>> /\ fetched = 0 /\ fetches = 0 /\ fetching = FALSE /\ batch = <<>>
  /\ cursorState = "none"
  /\ curBuf = <<>> /\ trBuf = <<>> /\ strBuf = <<>> /\ resBuf = <<>> /\ sent = <<>>
  /\ written = 0 /\ transformed = 0
  /\ ended = 0
  /\ piped = [cursor |-> FALSE, stringifier |-> FALSE]
  /\ sink = "open"
  /\ saved = <<>> /\ responses = <<>>

\* everything a handler call keeps in its locals, its streams and its response
Context ==
  [req |-> req, pc |-> pc, nextCalls |-> nextCalls, notified |-> notified,
   headers |-> headers, reads |-> reads, pending |-> pending, tf |-> tf, sf |-> sf,
   qry |-> qry, result |-> result, fetched |-> fetched, fetches |-> fetches,
   fetching |-> fetching, batch |-> batch, cursorState |-> cursorState,
   curBuf |-> curBuf, trBuf |-> trBuf, strBuf |-> strBuf, resBuf |-> resBuf,
   sent |-> sent, written |-> written, transformed |-> transformed, ended |-> ended,
   piped |-> piped, sink |-> sink, saved |-> saved, responses |-> responses]

\* the context of a request that has just arrived
InitialContext(r) ==
  [req |-> r, pc |-> "idle", nextCalls |-> <<>>, notified |-> <<>>, headers |-> {},
   reads |-> <<>>, pending |-> Absent, tf |-> NoStage, sf |-> NoStage, qry |-> Absent,
   result |-> <<>>, fetched |-> 0, fetches |-> 0, fetching |-> FALSE, batch |-> <<>>,
   cursorState |-> "none", curBuf |-> <<>>, trBuf |-> <<>>, strBuf |-> <<>>,
   resBuf |-> <<>>, sent |-> <<>>, written |-> 0, transformed |-> 0, ended |-> 0,
   piped |-> [cursor |-> FALSE, stringifier |-> FALSE], sink |-> "open",
   saved |-> <<>>, responses |-> <<>>]

(***************************************************************************)
(* The handlers.                                                           *)
(***************************************************************************)
\* a handler that reports nothing
NotifyDropped(log, err) == log

\* Honeybadger.notify(err)
Notify(log, err) == Append(log, err)

\* return next(error) before anything was opened
Reject(error) ==
  /\ pc' = "rejected"
  /\ nextCalls' = Append(nextCalls, error)
  /\ UNCHANGED <<reqVars, notified, headers, reads, pending, stageVars, cursorVars,
                 bufVars, flowVars>>

\* Measurement.find(...).cursor({batchSize}).pipe(..).pipe(..).pipe(res)
OpenStream(query, rows, transformStage, stringifyStage) ==
  /\ pc' = "streaming"
  /\ reads' = Append(reads, "Measurement.find")
  /\ qry' = query
  /\ tf' = transformStage /\ sf' = stringifyStage
  /\ result' = rows /\ cursorState' = "open"
  /\ piped' = [cursor |-> TRUE, stringifier |-> TRUE]
  /\ UNCHANGED <<fetched, fetches, fetching, batch, bufVars, ended, sink>>

\* header values: a media type with its charset parameter ('' when it has none),
\* and 'attachment; filename=<name>.<extension>'
MediaType(media, charset) == [media |-> media, charset |-> charset]
Attachment(name, extension) ==
  [disposition |-> "attachment", name |-> name, extension |-> extension]

\* a handler that names the file only when download is asked for
getDataHeadersDownloadOnly(params, sensorId, format) ==
  {<<"Content-Type",
     IF format = Str("csv") THEN MediaType("text/csv", "")
     ELSE MediaType("application/json", "utf-8")>>}
  \cup IF params["download"] = Str("true")
       THEN {<<"Content-Disposition", Attachment(sensorId, format.core)>>}
       ELSE {}

\* lines 251-270
getDataHeaders(params, sensorId, format) ==
  {<<"Content-Type",
     IF format = Str("csv") THEN MediaType("text/csv", "")
     ELSE MediaType("application/json", "utf-8")>>}
  \cup IF format = Str("csv") \/ params["download"] = Str("true")
       THEN {<<"Content-Disposition", Attachment(sensorId, format.core)>>}
       ELSE {}

\* lines 213-287
GetData ==
  /\ pc = "idle" /\ req.handler = "getData"
  /\ LET chk == getDataCheck(req.params) IN
     IF "error" \in DOMAIN chk THEN Reject(chk.error)
     ELSE /\ headers' = getDataHeaders(req.params, req.sensorId, chk.format)
          /\ OpenStream([sensor_id |-> {req.sensorId}, fromDate |-> chk.fromDate,
                         toDate |-> chk.toDate],
                        getDataFind(store, req.sensorId, chk.fromDate, chk.toDate),
                        [kind |-> "getData"],
                        [format |-> chk.format.core,
                         columns |-> <<"createdAt", "value">>,
                         delim |-> getDelimiter(req.params)])
          /\ UNCHANGED <<reqVars, nextCalls, notified, pending>>

\* lines 307-389: up to the Box.find that is awaited
GetDataMulti ==
  /\ pc = "idle" /\ req.handler = "getDataMulti"
  /\ LET chk == getDataMultiCheck(req) IN
     IF "error" \in DOMAIN chk THEN Reject(chk.error)
     ELSE /\ pc' = "boxFind"
          /\ reads' = Append(reads, "Box.find")
          /\ pending' = chk
          /\ UNCHANGED <<reqVars, nextCalls, notified, headers, stageVars, cursorVars,
                         bufVars, flowVars>>

\* lines 390-445: Box.find resolved
BoxFindResolved ==
  /\ pc = "boxFind"
  /\ LET boxData == BoxFind(pending.queryParams)
         sensors == buildSidecar(boxData, pending.phenomenon)
     IN /\ headers' = {<<"Content-Type", MediaType("text/csv", "")>>}
        /\ OpenStream([sensor_id |-> DOMAIN sensors, fromDate |-> pending.fromDate,
                       toDate |-> pending.toDate],
                      getDataMultiFind(store, DOMAIN sensors, pending.fromDate,
                                       pending.toDate),
                      [kind |-> "getDataMulti", columns |-> pending.columns,
                       sensors |-> sensors],
                      [format |-> "csv", columns |-> pending.columns,
                       delim |-> pending.delim])
  /\ UNCHANGED <<reqVars, nextCalls, notified, pending>>

\* lines 447-452: Box.find rejected
BoxFindRejected ==
  /\ pc = "boxFind"
  /\ pc' = "rejected"
  /\ notified' = Notify(notified, Err("MongoError", "Box.find"))
  /\ nextCalls' = Append(nextCalls, Err("InternalServerError", "Box.find"))
  /\ UNCHANGED <<reqVars, headers, reads, pending, stageVars, cursorVars, bufVars,
                 flowVars>>

(***************************************************************************)
(* The piped stream.  Each stage holds what it has produced and the next   *)
(* stage has not taken; a stage takes from the one before it only while    *)
(* its own buffer is below the high-water mark (write() returning false    *)
(* pauses the source until 'drain').  The cursor reads ahead of the pipe   *)
(* in batches.                                                             *)
(***************************************************************************)
Streaming == pc = "streaming"

\* a stage that never signals backpressure
HasRoomAlways(buf) == TRUE

\* write() into a stage returns true, and a paused source is resumed
HasRoom(buf) == Len(buf) < HighWaterMark

\* the cursor asks the server for its next batch
CursorFetch ==
  /\ Streaming /\ cursorState = "open"
  /\ ~fetching /\ batch = <<>> /\ HasRoom(curBuf)
  /\ fetching' = TRUE /\ fetches' = fetches + 1
  /\ UNCHANGED <<reqVars, pc, outVars, stageVars, qry, result, fetched, batch, cursorState,
                 bufVars, flowVars>>

\* a cursor that receives everything that is left in one batch
NextBatchAll(rows, from) == SubSeq(rows, from + 1, Len(rows))

\* cursor({batchSize}): the rows of the next batch
NextBatch(rows, from) ==
  SubSeq(rows, from + 1, IF from + BatchSize < Len(rows) THEN from + BatchSize ELSE Len(rows))

\* the batch arrives; an empty one ends the cursor
CursorBatch ==
  /\ Streaming /\ fetching
  /\ fetching' = FALSE
  /\ IF fetched < Len(result)
     THEN /\ batch' = NextBatch(result, fetched)
          /\ fetched' = fetched + Len(NextBatch(result, fetched))
          /\ UNCHANGED cursorState
     ELSE /\ cursorState' = "exhausted"
          /\ UNCHANGED <<batch, fetched>>
  /\ UNCHANGED <<reqVars, pc, outVars, stageVars, qry, result, fetches, bufVars, flowVars>>

\* the batch read fails: the cursor emits 'error', which has no listener
CursorError ==
  /\ Streaming /\ fetching
  /\ fetching' = FALSE
  /\ cursorState' = "errored"
  /\ pc' = "crashed"
  /\ UNCHANGED <<reqVars, outVars, stageVars, qry, result, fetched, fetches, batch, bufVars,
                 flowVars>>

\* the cursor stream pushes the next row of the batch
CursorPush ==
  /\ Streaming /\ cursorState = "open"
  /\ batch # <<>> /\ HasRoom(curBuf)
  /\ curBuf' = Append(curBuf, Head(batch))
  /\ batch' = Tail(batch)
  /\ UNCHANGED <<reqVars, pc, outVars, stageVars, qry, result, fetched, fetches, fetching,
                 cursorState, trBuf, strBuf, resBuf, sent, written, transformed, flowVars>>

\* a stage that hands on its newest output first
PushFront(buf, chunks) == chunks \o buf

\* where a stage puts what it produced
Push(buf, chunks) == buf \o chunks

\* lines 244-249 and 424-429: the transformer's 'error' listener
TransformFailed(err) ==
  /\ notified' = Notify(notified, err)
  /\ nextCalls' = Append(nextCalls, Err("InternalServerError", err.msg))
  /\ piped' = [piped EXCEPT !.cursor = FALSE]
  /\ UNCHANGED <<trBuf, headers, reads, pending, ended, sink>>

\* .pipe(csvTransformer) / .pipe(transformer): one row through the transform
TransformRow ==
  /\ Streaming /\ piped.cursor
  /\ curBuf # <<>> /\ HasRoom(trBuf)
  /\ curBuf' = Tail(curBuf)
  /\ transformed' = transformed + 1
  /\ LET out == Transform(tf, Head(curBuf)) IN
     IF "ok" \in DOMAIN out
     THEN /\ trBuf' = Push(trBuf, <<out.ok>>)
          /\ UNCHANGED <<outVars, flowVars>>
     ELSE TransformFailed(out.error)
  /\ UNCHANGED <<reqVars, pc, stageVars, cursorVars, strBuf, resBuf, sent, written>>

\* .pipe(stringifier): one record through the serializer
StringifyRow ==
  /\ Streaming
  /\ trBuf # <<>> /\ HasRoom(strBuf)
  /\ trBuf' = Tail(trBuf)
  /\ strBuf' = Push(strBuf, Stringify(sf, written, Head(trBuf)))
  /\ written' = written + 1
  /\ UNCHANGED <<reqVars, pc, outVars, stageVars, cursorVars, curBuf, resBuf, sent,
                 transformed, flowVars>>

\* .pipe(res): one chunk handed to the response
ResWrite ==
  /\ Streaming /\ piped.stringifier
  /\ strBuf # <<>> /\ HasRoom(resBuf)
  /\ strBuf' = Tail(strBuf)
  /\ resBuf' = Push(resBuf, <<Head(strBuf)>>)
  /\ UNCHANGED <<reqVars, pc, outVars, stageVars, cursorVars, curBuf, trBuf, sent,
                 written, transformed, flowVars>>

\* the client takes one chunk
SinkDrain ==
  /\ Streaming /\ sink = "open"
  /\ resBuf # <<>>
  /\ resBuf' = Tail(resBuf)
  /\ sent' = Append(sent, Head(resBuf))
  /\ UNCHANGED <<reqVars, pc, outVars, stageVars, cursorVars, curBuf, trBuf, strBuf,
                 written, transformed, flowVars>>

\* the cursor's 'end': the pipe ends the transformer
CursorEnd ==
  /\ Streaming /\ piped.cursor
  /\ cursorState = "exhausted" /\ curBuf = <<>> /\ ended = 0
  /\ ended' = 1
  /\ UNCHANGED <<reqVars, pc, outVars, stageVars, cursorVars, bufVars, piped, sink>>

\* the transformer's 'end': the pipe ends the stringifier, which flushes
TransformerEnd ==
  /\ Streaming
  /\ ended = 1 /\ trBuf = <<>>
  /\ ended' = 2
  /\ strBuf' = Push(strBuf, Flush(sf, written))
  /\ UNCHANGED <<reqVars, pc, outVars, stageVars, cursorVars, curBuf, trBuf, resBuf,
                 sent, written, transformed, piped, sink>>

\* the stringifier's 'end': the pipe ends the response
StringifierEnd ==
  /\ Streaming /\ piped.stringifier
  /\ ended = 2 /\ strBuf = <<>>
  /\ ended' = 3
  /\ UNCHANGED <<reqVars, pc, outVars, stageVars, cursorVars, bufVars, piped, sink>>

\* the response has sent everything
ResponseFinish ==
  /\ Streaming /\ sink = "open"
  /\ ended = 3 /\ resBuf = <<>>
  /\ ended' = 4
  /\ pc' = "finished"
  /\ UNCHANGED <<reqVars, outVars, stageVars, cursorVars, bufVars, piped, sink>>

\* the client disconnects: res emits 'close' and the pipe into it is detached
SinkClose ==
  /\ Streaming /\ sink = "open"
  /\ sink' = "closed"
  /\ resBuf' = <<>>
  /\ piped' = [piped EXCEPT !.stringifier = FALSE]
  /\ UNCHANGED <<reqVars, pc, outVars, stageVars, cursorVars, curBuf, trBuf, strBuf,
                 sent, written, transformed, ended>>

(***************************************************************************)
(* Decoders (../decoding): a body is its encoding and its records as the   *)
(* encoding writes them.  "array": objects with the keys sensor, value and *)
(* createdAt.  "object": a key and either a bare value or a sequence       *)
(* [value, createdAt].  "csv": the fields of a line.  "single": the one    *)
(* object postNewMeasurement builds.                                       *)
(***************************************************************************)
DecodeError(msg) == [error |-> Err("Error", msg)]

\* sensor, value and createdAt as one record of the encoding gives them
readRecord(enc, e) ==
  CASE enc = "array" -> [sensor |-> e.sensor, value |-> e.value, createdAt |-> e.createdAt]
    [] enc = "single" ->
         [sensor |-> e.sensor_id, value |-> e.value, createdAt |-> e.createdAt]
    [] enc = "object" ->
         IF DOMAIN e.val = {"seq"}
         THEN [sensor |-> e.key,
               value |-> IF Len(e.val.seq) >= 1 THEN e.val.seq[1] ELSE Absent,
               createdAt |-> IF Len(e.val.seq) >= 2 THEN e.val.seq[2] ELSE Absent]
         ELSE [sensor |-> e.key, value |-> e.val, createdAt |-> Absent]
    [] enc = "csv" ->
         [sensor |-> IF Len(e.fields) >= 1 THEN e.fields[1] ELSE Absent,
          value |-> IF Len(e.fields) >= 2 THEN e.fields[2] ELSE Absent,
          createdAt |-> IF Len(e.fields) >= 3 THEN e.fields[3] ELSE Absent]

\* the canonical measurement of one record, or the decode failure
decodeRecord(enc, e) ==
  LET r == readRecord(enc, e) IN
  IF r.sensor = Absent \/ r.value = Absent THEN DecodeError("missing sensor or value")
  ELSE IF r.createdAt # Absent /\ ~isMoment(parseTimestamp(r.createdAt))
  THEN DecodeError("invalid timestamp")
  ELSE [ok |-> [sensor_id |-> r.sensor.core, value |-> r.value,
                createdAt |-> IF r.createdAt = Absent THEN Iso(Now)
                              ELSE Iso(parseTimestamp(r.createdAt).moment)]]

RECURSIVE decodeRecords(_, _, _, _)
decodeRecords(enc, items, k, acc) ==
  IF k > Len(items) THEN [ok |-> acc]
  ELSE LET d == decodeRecord(enc, items[k]) IN
       IF "error" \in DOMAIN d THEN d
       ELSE decodeRecords(enc, items, k + 1, Append(acc, d.ok))

\* a decoder that keeps the first DecodeCap records of a longer batch
decodeMessageTruncating(body) ==
  decodeRecords(body.enc,
                IF Len(body.items) > DecodeCap THEN SubSeq(body.items, 1, DecodeCap)
                ELSE body.items,
                1, <<>>)

\* decodeHandlers[contentType].decodeMessage(body)
decodeMessage(body) ==
  IF Len(body.items) > DecodeCap THEN DecodeError("too many measurements")
  ELSE decodeRecords(body.enc, body.items, 1, <<>>)

\* decodeHandlers[contentType]: the registry of decoders by content type
decodeHandlers(contentType) ==
  IF contentType \in {"application/json", "text/csv"} THEN [decoder |-> contentType]
  ELSE Absent

(***************************************************************************)
(* postNewMeasurement and postNewMeasurements.                             *)
(***************************************************************************)
\* a handler that goes on with the undecoded object when decoding throws
postNewMeasurementDecodeUncaught(r) ==
  [ok |-> <<[sensor_id |-> r.sensorId, value |-> r.body.value,
             createdAt |-> r.body.createdAt]>>]

\* lines 470-478: the try block and what it leaves in measurements
postNewMeasurementDecode(r) ==
  decodeMessage([enc |-> "single",
                 items |-> <<[sensor_id |-> Str(r.sensorId), value |-> r.body.value,
                              createdAt |-> r.body.createdAt]>>])

\* a handler whose decoder truncates
postNewMeasurementsDecodeTruncating(r) ==
  IF decodeHandlers(r.contentType.lower) = Absent
  THEN [reject |-> Err("UnsupportedMediaTypeError", "Unsupported content-type.")]
  ELSE decodeMessageTruncating(r.body)

\* lines 540-549 and 567-569
postNewMeasurementsDecode(r) ==
  IF decodeHandlers(r.contentType.lower) = Absent
  THEN [reject |-> Err("UnsupportedMediaTypeError", "Unsupported content-type.")]
  ELSE decodeMessage(r.body)

\* what a handler does with the outcome of its decoding: next(error), or
\* Box.findOne(...) with the measurements kept for the callbacks
PostDecoded(dec, method) ==
  IF "reject" \in DOMAIN dec THEN Reject(dec.reject)
  ELSE IF "error" \in DOMAIN dec
  THEN Reject(Err("UnprocessableEntityError", dec.error.msg))
  ELSE /\ pc' = "findOne"
       /\ reads' = Append(reads, "Box.findOne")
       /\ pending' = [measurements |-> dec.ok, method |-> method]
       /\ UNCHANGED <<reqVars, nextCalls, notified, headers, stageVars, cursorVars,
                      bufVars, flowVars>>

\* lines 466-479
PostNewMeasurement ==
  /\ pc = "idle" /\ req.handler = "postNewMeasurement"
  /\ PostDecoded(postNewMeasurementDecode(req), "saveMeasurement")

\* lines 537-552 and 567-569
PostNewMeasurements ==
  /\ pc = "idle" /\ req.handler = "postNewMeasurements"
  /\ PostDecoded(postNewMeasurementsDecode(req), "saveMeasurementsArray")

\* Box.findOne({_id: boxId}): the box, or null
BoxFindOne(boxId) ==
  IF \E i \in 1..Len(Boxes) : Boxes[i]._id = boxId
  THEN Boxes[CHOOSE i \in 1..Len(Boxes) : Boxes[i]._id = boxId]
  ELSE Absent

\* lines 480-486 and 551-557: the first then callback
BoxFindOneResolved ==
  /\ pc = "findOne"
  /\ IF BoxFindOne(req.boxId.id) = Absent
     THEN /\ nextCalls' = Append(nextCalls, Err("NotFoundError", "no senseBox found"))
          /\ pc' = "lookedUp"
          /\ UNCHANGED saved
     ELSE /\ saved' = Append(saved,
                             IF pending.method = "saveMeasurement"
                             THEN <<pending.measurements[1]>> ELSE pending.measurements)
          /\ pc' = "saving"
          /\ UNCHANGED nextCalls
  /\ UNCHANGED <<req, store, responses, fn, other, notified, headers, reads, pending, stageVars,
                 cursorVars, bufVars, flowVars>>

\* lines 487-489 and 558-560: the second then callback, once the first has
\* returned or the save it returned has resolved
SaveResolved ==
  /\ pc \in {"lookedUp", "saving"}
  /\ pc' = "responded"
  /\ responses' = Append(responses,
                         [status |-> 201,
                          body |-> IF pending.method = "saveMeasurement"
                                   THEN Str("Measurement saved in box")
                                   ELSE Str("Measurements saved in box")])
  /\ UNCHANGED <<req, store, saved, fn, other, outVars, stageVars, cursorVars, bufVars, flowVars>>

\* lines 490-495 and 561-566: the catch callback
PostCaught(what) ==
  /\ pc' = "rejected"
  /\ notified' = Notify(notified, Err("MongoError", what))
  /\ nextCalls' = Append(nextCalls, Err("UnprocessableEntityError", what))
  /\ UNCHANGED <<reqVars, headers, reads, pending, stageVars, cursorVars, bufVars,
                 flowVars>>

\* Box.findOne rejected
BoxFindOneRejected == pc = "findOne" /\ PostCaught("Box.findOne")

\* box.saveMeasurement / box.saveMeasurementsArray rejected
SaveRejected == pc = "saving" /\ PostCaught("save")

(***************************************************************************)
(* findAllBoxes.  The date parameter is undefined, '' or text split at its *)
(* commas into raw timestamps.                                             *)
(***************************************************************************)
\* lines 587-588: '' reads as undefined
orUndefined(v) == IF v = Absent \/ v = Str("") THEN Absent ELSE v

\* moment(text): text that is one timestamp denotes its instant; text with a
\* comma is no timestamp, and moment either calls it invalid or (prefix) reads
\* the timestamp it starts with
momentOf(date, prefix) ==
  IF date = Absent THEN Moment(Now)
  ELSE IF Len(date.parts) = 1 \/ (prefix /\ Len(date.parts) > 1)
  THEN parseTimestamp(date.parts[1])
  ELSE Garbage

\* moment(a).isBefore(b): false when either is invalid
isBefore(a, b) ==
  /\ isMoment(parseTimestamp(a)) /\ isMoment(parseTimestamp(b))
  /\ parseTimestamp(a).moment < parseTimestamp(b).moment

\* lines 594-608: fromDate and toDate
findAllBoxesWindow(activityAroundDate, prefix) ==
  IF /\ activityAroundDate # Absent /\ Len(activityAroundDate.parts) = 2
     /\ isBefore(activityAroundDate.parts[1], activityAroundDate.parts[2])
  THEN [fromDate |-> Date(parseTimestamp(activityAroundDate.parts[1]).moment),
        toDate |-> Date(parseTimestamp(activityAroundDate.parts[2]).moment)]
  ELSE IF isMoment(momentOf(activityAroundDate, prefix))
  THEN [fromDate |-> Date(momentOf(activityAroundDate, prefix).moment - FindAllBoxesHours),
        toDate |-> Date(momentOf(activityAroundDate, prefix).moment + FindAllBoxesHours)]
  ELSE [fromDate |-> Absent, toDate |-> Absent]

\* createdAt: {$gt: fromDate, $lt: toDate}; no date lies beyond undefined
InWindow(m, w) ==
  /\ w.fromDate # Absent /\ w.toDate # Absent
  /\ m.createdAt.date > w.fromDate.date /\ m.createdAt.date < w.toDate.date

\* lines 586-608 and 705-734: up to the first query
FindAllBoxes ==
  /\ pc = "idle" /\ req.handler = "findAllBoxes"
  /\ LET format == getRequestedFormat(req.params, {Str("json"), Str("geojson")}, Str("json"))
         activityAroundDate == orUndefined(req.date)
     IN IF format = Absent THEN Reject(Err("InvalidArgumentError", "Invalid format"))
        ELSE \E prefix \in BOOLEAN :
               /\ pending' = [window |-> findAllBoxesWindow(activityAroundDate, prefix),
                              activityAroundDate |-> activityAroundDate,
                              phenomenon |-> orUndefined(req.params["phenomenon"]),
                              format |-> format, sensorIds |-> Absent]
               /\ IF activityAroundDate # Absent
                  THEN pc' = "distinct" /\ reads' = Append(reads, "Measurement.distinct")
                  ELSE pc' = "boxQry" /\ reads' = Append(reads, "Box.find")
               /\ UNCHANGED <<reqVars, nextCalls, notified, headers, stageVars, cursorVars,
                              bufVars, flowVars>>

\* lines 714-729: the sensor ids with a measurement in the window, then Box.find
MeasurementDistinct ==
  /\ pc = "distinct"
  /\ pc' = "boxQry"
  /\ reads' = Append(reads, "Box.find")
  /\ pending' = [pending EXCEPT !.sensorIds =
                   [in |-> {store[i].sensor_id :
                              i \in {j \in 1..Len(store) : InWindow(store[j], pending.window)}}]]
  /\ UNCHANGED <<reqVars, nextCalls, notified, headers, stageVars, cursorVars, bufVars,
                 flowVars>>

\* Box.find({}) or Box.find({'sensors._id': {$in}, 'sensors.title': phenomenon})
findAllBoxesFind(q) ==
  LET Test(b) ==
        q.sensorIds # Absent
          => /\ \E j \in 1..Len(b.sensors) : b.sensors[j]._id \in q.sensorIds.in
             /\ q.phenomenon # Absent
                  => \E j \in 1..Len(b.sensors) : b.sensors[j].title = q.phenomenon
  IN SelectSeq(Boxes, Test)

\* lines 686-690: the geojson output takes lat from coordinates[1], lng from [0]
findAllBoxesOutput(format, box) ==
  IF format = Str("geojson")
  THEN [id |-> box._id, lat |-> Num(box.coordinates[2]), lng |-> Num(box.coordinates[1])]
  ELSE [id |-> box._id, loc |-> box.coordinates]

\* lines 612-696: the callback of the box query, to res.send
BoxQryCallback ==
  /\ pc = "boxQry"
  /\ pc' = "responded"
  /\ LET boxes == findAllBoxesFind(pending) IN
     /\ reads' = IF pending.activityAroundDate # Absent
                 /\ \E i \in 1..Len(boxes) : Len(boxes[i].sensors) > 0
                 THEN Append(reads, "Measurement.findOne") ELSE reads
     /\ responses' = Append(responses,
                            [status |-> 200,
                             body |-> [boxes |-> [i \in 1..Len(boxes) |->
                                         findAllBoxesOutput(pending.format, boxes[i])]]])
  /\ UNCHANGED <<req, store, saved, fn, other, nextCalls, notified, headers, pending, stageVars,
                 cursorVars, bufVars, flowVars>>

\* lines 697-702: the catch callback
BoxQryFailed ==
  /\ pc = "boxQry"
  /\ pc' = "rejected"
  /\ notified' = Notify(notified, Err("MongoError", "Measurement.findOne"))
  /\ nextCalls' = Append(nextCalls, Err("InternalServerError", "Measurement.findOne"))
  /\ UNCHANGED <<reqVars, headers, reads, pending, stageVars, cursorVars, bufVars,
                 flowVars>>

(***************************************************************************)
(* Two requests in progress.  The handlers keep everything in locals and   *)
(* in the streams they create, so the next callback to run may belong to   *)
(* the other request: its context becomes the current one.                 *)
(***************************************************************************)
\* the callbacks of the other request run next
SwitchTo(c) ==
  /\ req' = c.req /\ pc' = c.pc /\ nextCalls' = c.nextCalls /\ notified' = c.notified
  /\ headers' = c.headers /\ reads' = c.reads /\ pending' = c.pending
  /\ tf' = c.tf /\ sf' = c.sf /\ qry' = c.qry /\ result' = c.result
  /\ fetched' = c.fetched /\ fetches' = c.fetches /\ fetching' = c.fetching
  /\ batch' = c.batch /\ cursorState' = c.cursorState
  /\ curBuf' = c.curBuf /\ trBuf' = c.trBuf /\ strBuf' = c.strBuf /\ resBuf' = c.resBuf
  /\ sent' = c.sent /\ written' = c.written /\ transformed' = c.transformed
  /\ ended' = c.ended /\ piped' = c.piped /\ sink' = c.sink
  /\ saved' = c.saved /\ responses' = c.responses
  /\ UNCHANGED <<store, fn>>

\* requests that share the transformer and the stringifier
SwitchSharedStages ==
  /\ other # Absent
  /\ other' = Context
  /\ SwitchTo([other EXCEPT !.tf = IF tf = NoStage THEN other.tf ELSE tf,
                            !.sf = IF sf = NoStage THEN other.sf ELSE sf])

Switch ==
  /\ other # Absent
  /\ other' = Context
  /\ SwitchTo(other)

Next ==
  \/ GetData
  \/ GetDataMulti
  \/ BoxFindResolved
  \/ BoxFindRejected
  \/ CursorFetch
  \/ CursorBatch
  \/ CursorError
  \/ CursorPush
  \/ TransformRow
  \/ StringifyRow
  \/ ResWrite
  \/ SinkDrain
  \/ CursorEnd
  \/ TransformerEnd
  \/ StringifierEnd
  \/ ResponseFinish
  \/ SinkClose
  \/ PostNewMeasurement
  \/ PostNewMeasurements
  \/ BoxFindOneResolved
  \/ BoxFindOneRejected
  \/ SaveResolved
  \/ SaveRejected
  \/ FindAllBoxes
  \/ MeasurementDistinct
  \/ BoxQryCallback
  \/ BoxQryFailed

(***************************************************************************)
(* Requests.                                                               *)
(***************************************************************************)
Params(to, from, format, download, columns, phenomenon, exposure) ==
  [n \in {"to-date", "from-date", "format", "download", "delimiter", "columns",
          "phenomenon", "exposure"} |->
     CASE n = "to-date" -> to
       [] n = "from-date" -> from
       [] n = "format" -> format
       [] n = "download" -> download
       [] n = "delimiter" -> Absent
       [] n = "columns" -> columns
       [] n = "phenomenon" -> phenomenon
       [] n = "exposure" -> exposure]

ToDates == {Absent, Garbage, Iso(Now - 1)}
FromDates == {Absent, Garbage, Iso(Now - 400), Iso(Now - 1), Iso(Now)}
Formats == {Absent, Str("json"), Str("csv"), Str("xml")}
Downloads == {Absent, Str("true"), Str("false")}
ColumnParams ==
  {Absent, [parts |-> <<" ">>], [parts |-> <<"value", "createdAt">>],
   [parts |-> <<"boxId", "nope">>], [parts |-> <<"value", " lat">>]}
Phenomena == {Absent, Padded(""), Padded("Temperatur")}
Exposures == {Absent, Padded("indoor"), Str("outdoor"), Str("Indoor")}
BoxIds == {Absent, [parts |-> <<"b1", "b2">>]}
BBoxes == {Absent, [bounds |-> <<5, 50, 10, 53>>], [bounds |-> <<12, 51, 14, 53>>],
           [bounds |-> <<7, 50, 7, 52>>]}

GetDataRequest(to, from, format, download) ==
  [handler |-> "getData", sensorId |-> "s1", boxId |-> Absent, bbox |-> Absent,
   params |-> Params(to, from, format, download, Absent, Absent, Absent)]

GetDataMultiRequest(to, from, columns, phenomenon, exposure, boxId, bbox) ==
  [handler |-> "getDataMulti", sensorId |-> "s1", boxId |-> boxId, bbox |-> bbox,
   params |-> Params(to, from, Absent, Absent, columns, phenomenon, exposure)]

\* the request r with the delimiter parameter d
WithDelimiter(r, d) == [r EXCEPT !.params["delimiter"] = d]

\* every request of the input sets
AllRequests ==
  {GetDataRequest(to, from, format, download) :
     to \in ToDates, from \in FromDates, format \in Formats, download \in Downloads}
  \cup
  {GetDataMultiRequest(to, from, columns, phenomenon, exposure, boxId, bbox) :
     to \in ToDates, from \in FromDates, columns \in ColumnParams,
     phenomenon \in Phenomena, exposure \in Exposures, boxId \in BoxIds, bbox \in BBoxes}

\* valid requests over a wide window: one per handler and format, and a multi-box
\* one whose window ends before the newest row
StreamRequests ==
  {GetDataRequest(Absent, Iso(Now - 400), format, Absent) : format \in {Absent, Str("csv")}}
  \cup {GetDataMultiRequest(to, Iso(Now - 400), Absent, Padded("Temperatur"), Absent,
                            [parts |-> <<"b1", "b2">>], Absent) : to \in {Absent, Iso(Now - 1)}}
  \cup {WithDelimiter(GetDataRequest(Absent, Iso(Now - 400), Str("csv"), Absent),
                      Str("semicolon")),
        WithDelimiter(GetDataMultiRequest(Absent, Iso(Now - 400),
                                          [parts |-> <<"value", "boxName", "createdAt">>],
                                          Padded("Temperatur"), Absent,
                                          [parts |-> <<"b1", "b2">>], Absent),
                      Str("semicolon"))}

\* the i-th reading of a posted batch; a bad one lacks its value (odd i) or has
\* a timestamp that does not parse (even i)
SensorIds == <<"s1", "s2", "s3", "s4", "s5", "s6">>
Reading(i, bad) ==
  [sensor |-> Str(SensorIds[i]),
   value |-> IF bad /\ i % 2 = 1 THEN Absent ELSE Num(i),
   createdAt |-> IF i % 2 = 1 THEN Absent ELSE IF bad THEN Garbage ELSE Iso(Now - i)]

\* the reading t as the encoding writes it
Encode(enc, t) ==
  LET given(v) == IF v = Absent THEN <<>> ELSE <<v>> IN
  CASE enc = "array" -> t
    [] enc = "object" ->
         [key |-> t.sensor,
          val |-> IF t.createdAt = Absent /\ t.value # Absent THEN t.value
                  ELSE [seq |-> given(t.value) \o given(t.createdAt)]]
    [] enc = "csv" -> [fields |-> <<t.sensor>> \o given(t.value) \o given(t.createdAt)]

\* n readings in the encoding, the one at position bad (if any) a bad one
Body(enc, n, bad) == [enc |-> enc, items |-> [i \in 1..n |-> Encode(enc, Reading(i, i = bad))]]
PostBodies(enc) ==
  {Body(enc, n, bad) : n \in 1..(DecodeCap + 1), bad \in 0..(DecodeCap + 1)}

ContentType(name, upper) == [lower |-> name, upper |-> upper]

PostNewMeasurementsRequest(boxId, contentType, body) ==
  [handler |-> "postNewMeasurements", sensorId |-> "s1", boxId |-> [id |-> boxId],
   bbox |-> Absent, contentType |-> contentType, body |-> body,
   params |-> Params(Absent, Absent, Absent, Absent, Absent, Absent, Absent)]

PostNewMeasurementRequest(boxId, value, createdAt) ==
  [handler |-> "postNewMeasurement", sensorId |-> "s1", boxId |-> [id |-> boxId],
   bbox |-> Absent, contentType |-> ContentType("application/json", FALSE),
   body |-> [value |-> value, createdAt |-> createdAt],
   params |-> Params(Absent, Absent, Absent, Absent, Absent, Absent, Absent)]

PostRequests ==
  {PostNewMeasurementsRequest(boxId, ContentType("application/json", FALSE), body) :
     boxId \in {"b1", "b9"}, body \in PostBodies("array") \cup PostBodies("object")}
  \cup
  {PostNewMeasurementsRequest(boxId, ContentType("text/csv", upper), body) :
     boxId \in {"b1", "b9"}, upper \in BOOLEAN, body \in PostBodies("csv")}
  \cup
  {PostNewMeasurementsRequest("b1", ContentType("text/xml", FALSE), Body("csv", 1, 0))}
  \cup
  {PostNewMeasurementRequest(boxId, value, createdAt) :
     boxId \in {"b1", "b9"}, value \in {Absent, Str("23.5"), Num(0)},
     createdAt \in {Absent, Garbage, Iso(Now - 1)}}

FindDates ==
  {Absent, Str(""), [parts |-> <<Iso(Now - 4)>>], [parts |-> <<Garbage>>],
   [parts |-> <<Iso(Now - 50), Iso(Now)>>], [parts |-> <<Iso(Now), Iso(Now - 50)>>],
   [parts |-> <<Iso(Now - 3), Garbage>>]}

FindAllBoxesRequest(date, phenomenon, format) ==
  [handler |-> "findAllBoxes", sensorId |-> "s1", boxId |-> Absent, bbox |-> Absent,
   date |-> date,
   params |-> Params(Absent, Absent, format, Absent, Absent, phenomenon, Absent)]

FindAllBoxesRequests ==
  {FindAllBoxesRequest(date, phenomenon, format) :
     date \in FindDates, phenomenon \in {Absent, Str(""), Str("Temperatur")},
     format \in {Absent, Str("json"), Str("geojson"), Str("csv")}}

Init ==
  /\ InitProgram /\ fn = Absent /\ other = Absent
  /\ req \in StreamRequests \cup PostRequests \cup FindAllBoxesRequests
  /\ store \in {StoredRows(n) : n \in 0..MaxRows}

InitReq ==
  /\ InitProgram /\ fn = Absent /\ other = Absent
  /\ req \in AllRequests \cup PostRequests \cup FindAllBoxesRequests
  /\ store = StoredRows(2)

Spec == Init /\ [][Next]_vars

SpecReq == InitReq /\ [][Next]_vars

(***************************************************************************)
(* Functions applied on their own: the arguments are drawn at the start    *)
(* and one step applies the function.  No request is being served.         *)
(***************************************************************************)
NoRequest == [handler |-> "none"]

\* the sidecar getDataMulti builds for the phenomenon "Temperatur": s1 and s3
FillSidecar == buildSidecar(Boxes, Str("Temperatur"))

\* raw rows: of a sensor with a sidecar entry or of one without, with a value
\* that is truthy, falsy or missing
FillValues == {Num(0), Num(3), Str(""), Str("7"), Bool(FALSE), Absent}
FillRows ==
  {[sensor_id |-> s, createdAt |-> Date(Now - d), value |-> v] :
     s \in {"s1", "s9"}, d \in 1..2, v \in FillValues}
FillColumnSets ==
  {<<"createdAt", "value">>, <<"value">>, GET_DATA_MULTI_DEFAULT_COLUMNS,
   <<"value", "boxId">>, <<"sensorId", "phenomenon", "createdAt">>}

TransformerInputs ==
  {[op |-> "transformer", data |-> d, columns |-> c, out |-> Absent, again |-> Absent] :
     d \in FillRows, c \in FillColumnSets}

\* lines 412-422 on one row
ApplyTransformer ==
  /\ fn.op = "transformer" /\ fn.out = Absent
  /\ fn' = [fn EXCEPT !.out = transformer(fn.data, fn.columns, FillSidecar)]
  /\ UNCHANGED <<req, store, ingestVars, other, pc, outVars, stageVars, cursorVars, bufVars,
                 flowVars>>

\* lines 412-422 on the row they produced
ApplyTransformerAgain ==
  /\ fn.op = "transformer" /\ fn.out # Absent /\ "ok" \in DOMAIN fn.out
  /\ fn.again = Absent
  /\ fn' = [fn EXCEPT !.again = transformer(fn.out.ok, fn.columns, FillSidecar)]
  /\ UNCHANGED <<req, store, ingestVars, other, pc, outVars, stageVars, cursorVars, bufVars,
                 flowVars>>

InitFn ==
  /\ InitProgram /\ req = NoRequest /\ store = <<>> /\ other = Absent
  /\ fn \in TransformerInputs

NextFn ==
  \/ ApplyTransformer
  \/ ApplyTransformerAgain

SpecFn == InitFn /\ [][NextFn]_vars

(***************************************************************************)
(* Two multi-box exports in progress at once, over the same stored rows.   *)
(***************************************************************************)
PairRequests ==
  {GetDataMultiRequest(Absent, Iso(Now - 400), Absent, Padded("Temperatur"), Absent,
                       [parts |-> <<"b1", "b2">>], Absent),
   WithDelimiter(GetDataMultiRequest(Iso(Now - 1), Iso(Now - 400),
                                     [parts |-> <<"value", "boxName", "createdAt">>],
                                     Padded("Temperatur"), Absent,
                                     [parts |-> <<"b1", "b2">>], Absent),
                 Str("semicolon"))}

InitPair ==
  /\ InitProgram /\ fn = Absent
  /\ store = StoredRows(2)
  /\ req \in PairRequests
  /\ other \in {InitialContext(r) : r \in PairRequests}

NextPair ==
  \/ GetDataMulti
  \/ BoxFindResolved
  \/ BoxFindRejected
  \/ CursorFetch
  \/ CursorBatch
  \/ CursorError
  \/ CursorPush
  \/ TransformRow
  \/ StringifyRow
  \/ ResWrite
  \/ SinkDrain
  \/ CursorEnd
  \/ TransformerEnd
  \/ StringifierEnd
  \/ ResponseFinish
  \/ SinkClose
  \/ Switch

SpecPair == InitPair /\ [][NextPair]_vars

(***************************************************************************)
(* One long export: more matching rows than the cursor batch and the       *)
(* stages can hold together.                                               *)
(***************************************************************************)
\* what a batch and three stages at their high-water mark hold
StagesHold == BatchSize + 3 * HighWaterMark
LongRows == StagesHold + 3

LongRequests ==
  {GetDataMultiRequest(Absent, Iso(Now - 400), Absent, Padded("Temperatur"), Absent,
                       [parts |-> <<"b1", "b2">>], Absent),
   GetDataRequest(Absent, Iso(Now - 400), Str("json"), Absent)}

InitLong ==
  /\ InitProgram /\ fn = Absent /\ other = Absent
  /\ store = StoredRows(LongRows)
  /\ req \in LongRequests

NextLong ==
  \/ GetData
  \/ GetDataMulti
  \/ BoxFindResolved
  \/ BoxFindRejected
  \/ CursorFetch
  \/ CursorBatch
  \/ CursorError
  \/ CursorPush
  \/ TransformRow
  \/ StringifyRow
  \/ ResWrite
  \/ SinkDrain
  \/ CursorEnd
  \/ TransformerEnd
  \/ StringifierEnd
  \/ ResponseFinish
  \/ SinkClose

SpecLong == InitLong /\ [][NextLong]_vars

(***************************************************************************)
(* An export whose storage reads succeed and whose client keeps reading.   *)
(* Every callback the event loop has queued is run, and a stage that can   *)
(* move a row does so: each step of the pipeline is weakly fair.           *)
(***************************************************************************)
LiveStores == {StoredRows(n) : n \in {0, 1, LongRows}}
LiveRequests ==
  LongRequests \cup {GetDataRequest(Absent, Iso(Now - 400), Str("csv"), Absent)}

InitLive ==
  /\ InitProgram /\ fn = Absent /\ other = Absent
  /\ store \in LiveStores
  /\ req \in LiveRequests

NextLive ==
  \/ GetData
  \/ GetDataMulti
  \/ BoxFindResolved
  \/ CursorFetch
  \/ CursorBatch
  \/ CursorPush
  \/ TransformRow
  \/ StringifyRow
  \/ ResWrite
  \/ SinkDrain
  \/ CursorEnd
  \/ TransformerEnd
  \/ StringifierEnd
  \/ ResponseFinish

FairStages ==
  /\ WF_vars(GetData) /\ WF_vars(GetDataMulti) /\ WF_vars(BoxFindResolved)
  /\ WF_vars(CursorFetch) /\ WF_vars(CursorBatch) /\ WF_vars(CursorPush)
  /\ WF_vars(TransformRow) /\ WF_vars(StringifyRow) /\ WF_vars(ResWrite)
  /\ WF_vars(SinkDrain) /\ WF_vars(CursorEnd) /\ WF_vars(TransformerEnd)
  /\ WF_vars(StringifierEnd) /\ WF_vars(ResponseFinish)

SpecLive == InitLive /\ [][NextLive]_vars /\ FairStages

(***************************************************************************)
(* Properties.                                                             *)
(***************************************************************************)
IsPrefix(a, b) == Len(a) <= Len(b) /\ a = SubSeq(b, 1, Len(a))
RecordsOf(chunks) == SelectSeq(chunks, IsRecordChunk)
ValuesOfChunks(chunks) ==
  [i \in 1..Len(RecordsOf(chunks)) |-> RecordsOf(chunks)[i].row["value"]]
ValuesOfRows(rows) == [i \in 1..Len(rows) |-> rows[i]["value"]]
Opened == pc \in {"streaming", "finished", "crashed"}
Healthy == pc \in {"streaming", "finished"} /\ sink = "open" /\ piped.cursor
NothingOpened ==
  /\ reads = <<>> /\ headers = {} /\ cursorState = "none" /\ qry = Absent
  /\ sent = <<>> /\ resBuf = <<>>
RejectedOnce == pc = "rejected" /\ Len(nextCalls) = 1
IsMulti == req.handler = "getDataMulti"

\* C1: the records the sink has received are, in order, the first rows the cursor
\* produced; while the stream is healthy the records in the sink and in the stages,
\* sink first, are exactly the rows fetched so far, each once and in cursor order;
\* a finished export has delivered every row of the cursor.
C1_OrderPreserved ==
  Opened =>
    /\ IsPrefix(ValuesOfChunks(sent), ValuesOfRows(result))
    /\ Healthy =>
         ValuesOfChunks(sent \o resBuf \o strBuf) \o ValuesOfRows(trBuf)
           \o ValuesOfRows(curBuf) \o ValuesOfRows(batch)
         = ValuesOfRows(SubSeq(result, 1, fetched))
    /\ pc = "finished" => ValuesOfChunks(sent) = ValuesOfRows(result)

C1_Witness ==
  /\ pc = "finished" /\ Len(result) > BatchSize
  /\ Len(RecordsOf(sent)) = Len(result)

C3_Cancellation ==
  [][/\ sink' = "closed" => cursorState' # "open"
     /\ sink = "closed" =>
          /\ fetches' = fetches
          /\ transformed' = transformed
          /\ written' = written]_vars

\* C4: a failed export has reported its failure to next() exactly once, and no
\* export reports more than once.
C4_FailureReportedOnce ==
  /\ cursorState = "errored" => Len(nextCalls) = 1
  /\ Len(notified) > 0 => Len(nextCalls) = 1
  /\ Len(nextCalls) <= 1

C5_Both == IsMulti /\ req.boxId # Absent /\ req.bbox # Absent
C5_Neither == IsMulti /\ req.boxId = Absent /\ req.bbox = Absent
C5_PassesEarlierChecks ==
  /\ "error" \notin DOMAIN getDataMultiWindow(req.params)
  /\ "error" \notin DOMAIN getDataMultiColumns(req.params)
  /\ Truthy(req.params["phenomenon"]) /\ req.params["phenomenon"].core # ""

\* C5: a multi-box request with both a box-id list and a bounding box, or with
\* neither, is rejected with one error and nothing is read, set or opened; when
\* its window, columns and phenomenon are valid the error is the selection's.
C5_SelectionRejected ==
  ((C5_Both \/ C5_Neither) /\ pc # "idle") =>
    /\ RejectedOnce /\ NothingOpened /\ notified = <<>>
    /\ C5_PassesEarlierChecks =>
         nextCalls[1] = Err("BadRequestError",
                            IF C5_Both THEN "please specify only boxId or bbox"
                            ELSE "please specify either boxId or bbox")

C5_Witness ==
  /\ C5_Both /\ C5_PassesEarlierChecks /\ RejectedOnce
  /\ nextCalls[1].msg = "please specify only boxId or bbox"

C6_AllowList ==
  {"createdAt", "value", "lat", "lng", "unit", "boxId", "sensorId", "phenomenon",
   "sensorType", "boxName", "exposure"}
C6_AbsentOrBlank ==
  \/ req.params["columns"] = Absent
  \/ req.params["columns"].parts \in {<<"">>, <<" ">>}
C6_Illegal ==
  /\ ~C6_AbsentOrBlank
  /\ \E i \in 1..Len(req.params["columns"].parts) :
       req.params["columns"].parts[i] \notin C6_AllowList

\* C6: a columns list with an element outside the allow-list rejects the request
\* with nothing read, set or opened; an absent or blank columns parameter gives
\* the columns createdAt, value, lat, lng in that order.
C6_ColumnSet ==
  IsMulti =>
    /\ (C6_Illegal /\ pc # "idle") => RejectedOnce /\ NothingOpened
    /\ (C6_AbsentOrBlank /\ pc = "boxFind") =>
         pending.columns = <<"createdAt", "value", "lat", "lng">>
    /\ (C6_AbsentOrBlank /\ pc \in {"streaming", "finished"}) =>
         /\ tf.columns = <<"createdAt", "value", "lat", "lng">>
         /\ sf.columns = <<"createdAt", "value", "lat", "lng">>
    /\ (~C6_AbsentOrBlank /\ ~C6_Illegal /\ pc \in {"streaming", "finished"}) =>
         sf.columns = req.params["columns"].parts

C6_Witness ==
  /\ IsMulti /\ C6_Illegal /\ RejectedOnce
  /\ req.params["columns"].parts[1] \in C6_AllowList
  /\ nextCalls[1] = Err("UnprocessableEntityError", "illegal columns parameter")

C7_PhenomenonBad ==
  \/ req.params["phenomenon"] = Absent
  \/ req.params["phenomenon"].core = ""
C7_SelectionBad == (req.boxId # Absent) = (req.bbox # Absent)
C7_ExposureBad ==
  /\ req.params["exposure"] # Absent
  /\ req.params["exposure"].ws \/ req.params["exposure"].core # ""
  /\ req.params["exposure"].core \notin {"indoor", "outdoor"}
C7_ReachesFilters ==
  /\ IsMulti
  /\ "error" \notin DOMAIN getDataMultiWindow(req.params)
  /\ "error" \notin DOMAIN getDataMultiColumns(req.params)
C7_Expected ==
  IF C7_PhenomenonBad THEN "invalid phenomenon parameter"
  ELSE IF C7_SelectionBad
       THEN IF req.boxId # Absent THEN "please specify only boxId or bbox"
            ELSE "please specify either boxId or bbox"
  ELSE IF C7_ExposureBad THEN "exposure column should be indoor or outdoor"
  ELSE "none"

\* C7: of the filter rules a request breaks, the error reported is that of the
\* first in the order phenomenon, selection, exposure (for a request whose window
\* and columns are valid, which are checked before them); no request reports more
\* than one error.
C7_FirstFailureWins ==
  /\ Len(nextCalls) <= 1
  /\ (C7_ReachesFilters /\ pc # "idle") =>
       IF C7_Expected = "none"
       THEN "Box.find" = reads[1]
       ELSE RejectedOnce /\ nextCalls[1].msg = C7_Expected /\ reads = <<>>

C7_Witness ==
  /\ C7_ReachesFilters /\ ~C7_PhenomenonBad /\ C7_SelectionBad /\ C7_ExposureBad
  /\ RejectedOnce /\ nextCalls[1].msg = "please specify either boxId or bbox"

C8_Unparseable(v) == v # Absent /\ DOMAIN v # {"iso"}
C8_To == IF req.params["to-date"] = Absent THEN Now ELSE req.params["to-date"].iso
C8_BadWindow ==
  \/ C8_Unparseable(req.params["to-date"])
  \/ C8_Unparseable(req.params["from-date"])
  \/ /\ req.params["from-date"] # Absent
     /\ req.params["from-date"].iso >= C8_To

\* C8: a request whose bounds parse with from not before to (from = to included),
\* or with a bound that does not parse, is rejected with an InvalidArgumentError
\* and its measurement query is never built or run.
C8_TimeErrors ==
  (C8_BadWindow /\ pc # "idle") =>
    /\ RejectedOnce /\ NothingOpened
    /\ nextCalls[1].type = "InvalidArgumentError"

C8_Witness ==
  /\ req.handler = "getData" /\ RejectedOnce
  /\ req.params["from-date"] = Iso(Now - 1) /\ req.params["to-date"] = Iso(Now - 1)
  /\ req.params["format"] = Str("csv")

\* C9: with from-date omitted the window starts 48 hours (getData) or 15 days
\* (getDataMulti) before now, and with to-date omitted it ends now.
C9_DefaultsFromNow ==
  qry # Absent =>
    /\ req.params["from-date"] = Absent =>
         qry.fromDate = Moment(Now - (IF IsMulti THEN 15 * 24 ELSE 48))
    /\ req.params["to-date"] = Absent => qry.toDate = Moment(Now)

C10_From ==
  IF req.params["from-date"] = Absent THEN Now - 15 * 24 ELSE req.params["from-date"].iso
C10_To == IF req.params["to-date"] = Absent THEN Now ELSE req.params["to-date"].iso
C10_InWindow(m) ==
  /\ m.sensor_id \in {"s1", "s3"}
  /\ m.createdAt.date > C10_From /\ m.createdAt.date < C10_To

\* C10: getData never delivers, or holds in its stages, more records than
\* queryLimit; a finished getDataMulti has delivered every stored row of the
\* selected sensors within its window.
C10_RowCap ==
  /\ (req.handler = "getData" /\ Opened) =>
       /\ Len(RecordsOf(sent \o resBuf \o strBuf)) <= QueryLimit
       /\ fetched <= QueryLimit
  /\ (IsMulti /\ pc = "finished") =>
       ValuesOfChunks(sent) = ValuesOfRows(SelectSeq(store, C10_InWindow))

C10_OfSensor(m) == m.sensor_id = req.sensorId

C10_Witness ==
  /\ req.handler = "getData" /\ pc = "finished"
  /\ Len(SelectSeq(store, C10_OfSensor)) > QueryLimit
  /\ Len(RecordsOf(sent)) = QueryLimit

C12_Present(data, col) == col \in DOMAIN data /\ data[col] # Absent

\* C12 (as claimed): every requested column that is present on the raw row keeps
\* the raw row's value whatever that value is (0, '' and false included), and
\* filling the filled row again changes nothing
C12_RawValueKept ==
  (fn.op = "transformer" /\ fn.out # Absent /\ "ok" \in DOMAIN fn.out)
    => /\ \A k \in 1..Len(fn.columns) :
            (C12_Present(fn.data, fn.columns[k]) /\ fn.columns[k] # "createdAt")
              => Get(fn.out.ok, fn.columns[k]) = fn.data[fn.columns[k]]
       /\ fn.again # Absent => fn.again = fn.out

\* the columns and the delimiter the request asks for
C13_Columns ==
  IF req.handler = "getData" THEN <<"createdAt", "value">>
  ELSE IF req.params["columns"] = Absent THEN <<"createdAt", "value", "lat", "lng">>
  ELSE req.params["columns"].parts
C13_Delimiter == IF req.params["delimiter"] = Str("semicolon") THEN Str(";") ELSE Str(",")
\* the field of column col in the line of the cursor row
C13_Field(row, col) ==
  IF col = "createdAt" THEN Iso(row.createdAt.date)
  ELSE IF col = "value" THEN row.value
  ELSE Get(tf.sensors[row.sensor_id], col)

\* C13: a finished CSV export of N rows (N = 0 included) has written exactly N + 1
\* lines: the header naming the requested columns, then one line per cursor row in
\* cursor order, its fields in the requested column order, all with the delimiter
\* the caller selected
C13_CsvLines ==
  (pc = "finished" /\ sf.format = "csv")
    => /\ Len(sent) = Len(result) + 1
       /\ sent[1].kind = "header" /\ sent[1].fields = C13_Columns
       /\ sent[1].delim = C13_Delimiter
       /\ \A i \in 1..Len(result) :
            /\ sent[i + 1].kind = "line" /\ sent[i + 1].delim = C13_Delimiter
            /\ sent[i + 1].fields =
                 [k \in 1..Len(C13_Columns) |-> C13_Field(result[i], C13_Columns[k])]

C13_Witness ==
  /\ pc = "finished" /\ sf.format = "csv" /\ Len(result) >= 2 /\ Len(sent) = Len(result) + 1
  /\ sent[1].delim = Str(";") /\ sent[1].fields = <<"value", "boxName", "createdAt">>

\* the output as tokens: punctuation and records
RECURSIVE C14_Tokens(_)
C14_Tokens(chunks) ==
  IF chunks = <<>> THEN <<>>
  ELSE (IF Head(chunks).kind = "json"
        THEN <<[tok |-> Head(chunks).pre], [rec |-> Head(chunks).row]>>
        ELSE IF Head(chunks).text = "[]" THEN <<[tok |-> "["], [tok |-> "]"]>>
        ELSE <<[tok |-> Head(chunks).text]>>)
       \o C14_Tokens(Tail(chunks))
RECURSIVE C14_Records(_, _)
C14_Records(rows, i) ==
  IF i > Len(rows) THEN <<>>
  ELSE (IF i > 1 THEN <<[tok |-> ","]>> ELSE <<>>)
       \o <<[rec |-> [createdAt |-> Iso(rows[i].createdAt.date), value |-> rows[i].value]]>>
       \o C14_Records(rows, i + 1)
C14_Stream == sent \o resBuf \o strBuf

\* C14: a finished JSON export of N rows has written '[', the N records in cursor
\* order with exactly N - 1 commas between them, then ']' (so '[]' for N = 0);
\* ']' is written once, last, and only after the last record was serialized
C14_JsonArray ==
  (sf # NoStage /\ sf.format = "json")
    => /\ pc = "finished"
            => C14_Tokens(sent) = <<[tok |-> "["]>> \o C14_Records(result, 1) \o <<[tok |-> "]"]>>
       /\ \A i \in 1..Len(C14_Stream) :
            C14_Stream[i].kind = "close"
              => i = Len(C14_Stream) /\ written = Len(result) /\ ended >= 2

C14_Witness ==
  /\ pc = "finished" /\ sf.format = "json" /\ Len(result) >= 2
  /\ Len(C14_Tokens(sent)) = 2 * Len(result) + 1

C15_Post ==
  /\ req.handler = "postNewMeasurements"
  /\ req.contentType.lower \in {"application/json", "text/csv"}
C15_Count == Len(req.body.items)
C15_WellFormed == req.body = Body(req.body.enc, C15_Count, 0)

\* C15: in every supported encoding a well-formed batch of exactly DecodeCap
\* records is decoded whole and goes on to the box lookup, and a batch of more
\* fails with a decode error: no measurement is kept, postNewMeasurements looks
\* up no box and hands nothing to the write path
C15_BatchCap ==
  (C15_Post /\ pc # "idle")
    => /\ C15_Count > DecodeCap
            => /\ pc = "rejected" /\ pending = Absent /\ reads = <<>>
               /\ nextCalls = <<Err("UnprocessableEntityError", "too many measurements")>>
               /\ saved = <<>> /\ responses = <<>>
       /\ (C15_Count = DecodeCap /\ C15_WellFormed)
            => /\ reads = <<"Box.findOne">> /\ Len(pending.measurements) = DecodeCap
               /\ \A i \in 1..DecodeCap :
                    /\ pending.measurements[i].sensor_id = SensorIds[i]
                    /\ pending.measurements[i].value = Num(i)
               /\ saved # <<>> => saved = <<pending.measurements>>

C15_Witness ==
  /\ C15_Post /\ req.body.enc = "object" /\ C15_Count = DecodeCap + 1 /\ C15_WellFormed
  /\ pc = "rejected"

\* the request carries a record that does not decode
C16_DecodeFails ==
  \/ /\ C15_Post
     /\ \E i \in 1..C15_Count : req.body.items[i] = Encode(req.body.enc, Reading(i, TRUE))
  \/ /\ req.handler = "postNewMeasurement"
     /\ req.body.value = Absent \/ req.body.createdAt = Garbage

\* C16: when a record of the body does not decode, postNewMeasurements and
\* postNewMeasurement answer with one UnprocessableEntityError, never look the
\* box up and hand nothing to the storage write path
C16_AllOrNothing ==
  (C16_DecodeFails /\ pc # "idle")
    => /\ pc = "rejected" /\ Len(nextCalls) = 1
       /\ nextCalls[1].type = "UnprocessableEntityError"
       /\ reads = <<>> /\ pending = Absent /\ saved = <<>> /\ responses = <<>>

C16_Witness ==
  /\ C15_Post /\ C15_Count = DecodeCap /\ pc = "rejected"
  /\ req.body.items[DecodeCap] = Encode(req.body.enc, Reading(DecodeCap, TRUE))
  /\ req.body.items[1] = Encode(req.body.enc, Reading(1, FALSE))

\* C17 (as claimed): every error handed to next() was also handed to
\* Honeybadger.notify
C17_EveryErrorNotified == Len(notified) = Len(nextCalls)

\* the errors that a catch callback or an 'error' listener hands to next()
C17_Caught(e) ==
  \/ e.type = "InternalServerError"
  \/ e.type = "UnprocessableEntityError" /\ e.msg \in {"Box.findOne", "save"}

\* C17 (amended): the errors caught at run time (a rejected Box.find, Box.findOne
\* or save, a transformer error) are handed to Honeybadger.notify when they are
\* handed to next(); validation, time, decode, content-type and not-found errors
\* are handed to next() only; and no storage read is issued a second time
C17_CaughtErrorsNotified ==
  /\ Len(notified) = Len(SelectSeq(nextCalls, C17_Caught))
  /\ \A i \in 1..Len(nextCalls) :
       ~C17_Caught(nextCalls[i])
         => nextCalls[i].type \in {"InvalidArgumentError", "UnprocessableEntityError",
                                   "BadRequestError", "UnsupportedMediaTypeError",
                                   "NotFoundError"}
  /\ req.handler # "findAllBoxes" => \A i, j \in 1..Len(reads) : i # j => reads[i] # reads[j]

C17_Witness ==
  /\ pc = "rejected" /\ Len(notified) = 1 /\ Len(nextCalls) = 1
  /\ C17_Caught(nextCalls[1]) /\ saved # <<>>

C19_Format == IF req.params["format"] = Str("csv") THEN "csv" ELSE "json"
C19_Header(name) == {h \in headers : h[1] = name}

\* C19: once getData has opened its export, Content-Type is text/csv for format
\* csv and application/json for format json, and Content-Disposition, naming the
\* file after the sensor id and the format, is set exactly when the format is csv
\* or download is 'true'; a request for an unsupported format is rejected with no
\* header set and no cursor opened
C19_Headers ==
  (req.handler = "getData" /\ pc # "idle")
    => /\ Opened
            => /\ \E h \in headers : C19_Header("Content-Type") = {h}
                    /\ h[2].media = IF C19_Format = "csv" THEN "text/csv"
                                    ELSE "application/json"
               /\ IF C19_Format = "csv" \/ req.params["download"] = Str("true")
                  THEN C19_Header("Content-Disposition")
                         = {<<"Content-Disposition", Attachment(req.sensorId, C19_Format)>>}
                  ELSE C19_Header("Content-Disposition") = {}
       /\ req.params["format"] \notin {Absent, Str("json"), Str("csv")}
            => pc = "rejected" /\ NothingOpened

C19_Witness ==
  /\ req.handler = "getData" /\ Opened /\ req.params["format"] = Str("json")
  /\ req.params["download"] = Str("true") /\ C19_Header("Content-Disposition") # {}

C20_Single ==
  /\ req.handler = "findAllBoxes" /\ orUndefined(req.date) # Absent
  /\ Len(req.date.parts) = 1 /\ DOMAIN req.date.parts[1] = {"iso"}
C20_Pair ==
  /\ req.handler = "findAllBoxes" /\ orUndefined(req.date) # Absent
  /\ Len(req.date.parts) = 2
  /\ DOMAIN req.date.parts[1] = {"iso"} /\ DOMAIN req.date.parts[2] = {"iso"}
  /\ req.date.parts[1].iso < req.date.parts[2].iso
\* the ids of the boxes with a sensor that has a measurement strictly between
C20_Active(from, to) ==
  {Boxes[b]._id : b \in {k \in 1..Len(Boxes) :
     \E j \in 1..Len(Boxes[k].sensors) : \E i \in 1..Len(store) :
       /\ store[i].sensor_id = Boxes[k].sensors[j]._id
       /\ store[i].createdAt.date > from /\ store[i].createdAt.date < to}}
C20_Answered ==
  {responses[1].body.boxes[i].id : i \in 1..Len(responses[1].body.boxes)}

\* C20 (as claimed): for a single valid date d findAllBoxes queries and answers
\* with the boxes that have measurements within 2 hours before and after d, and
\* for two dates d0 before d1 with those that have measurements between d0 and d1
C20_ActivityWindow ==
  /\ (C20_Single /\ pending # Absent)
       => /\ pending.window = [fromDate |-> Date(req.date.parts[1].iso - 2),
                               toDate |-> Date(req.date.parts[1].iso + 2)]
          /\ (pc = "responded" /\ req.params["phenomenon"] = Absent)
               => C20_Answered
                    = C20_Active(req.date.parts[1].iso - 2, req.date.parts[1].iso + 2)
  /\ (C20_Pair /\ pending # Absent)
       => /\ pending.window = [fromDate |-> Date(req.date.parts[1].iso),
                               toDate |-> Date(req.date.parts[2].iso)]
          /\ (pc = "responded" /\ req.params["phenomenon"] = Absent)
               => C20_Answered = C20_Active(req.date.parts[1].iso, req.date.parts[2].iso)

\* what the request r exports when it is served alone: the columns it asks for,
\* the stored rows of the Temperatur sensors of b1 and b2 inside its window, and
\* the header and lines made of them
C18_Columns(r) ==
  IF r.params["columns"] = Absent THEN <<"createdAt", "value", "lat", "lng">>
  ELSE r.params["columns"].parts
C18_Delimiter(r) ==
  IF r.params["delimiter"] = Str("semicolon") THEN Str(";") ELSE Str(",")
C18_Rows(r) ==
  LET to == IF r.params["to-date"] = Absent THEN Now ELSE r.params["to-date"].iso
      Test(m) == /\ m.sensor_id \in {"s1", "s3"}
                 /\ m.createdAt.date > r.params["from-date"].iso /\ m.createdAt.date < to
  IN SelectSeq(store, Test)
C18_Field(row, col) ==
  IF col = "createdAt" THEN Iso(row.createdAt.date)
  ELSE IF col = "value" THEN row.value
  ELSE Get(FillSidecar[row.sensor_id], col)
C18_Alone(r) ==
  <<[kind |-> "header", fields |-> C18_Columns(r), delim |-> C18_Delimiter(r)]>>
  \o [i \in 1..Len(C18_Rows(r)) |->
        [kind |-> "line", delim |-> C18_Delimiter(r),
         fields |-> [k \in 1..Len(C18_Columns(r)) |->
                       C18_Field(C18_Rows(r)[i], C18_Columns(r)[k])]]]
C18_Written(c) ==
  [i \in 1..Len(c.sent) |->
     [kind |-> c.sent[i].kind, fields |-> c.sent[i].fields, delim |-> c.sent[i].delim]]
C18_AsAlone(c) ==
  /\ IsPrefix(C18_Written(c), C18_Alone(c.req))
  /\ c.pc = "finished" => C18_Written(c) = C18_Alone(c.req)
  /\ c.tf # NoStage
       => /\ c.tf.columns = C18_Columns(c.req) /\ c.sf.columns = C18_Columns(c.req)
          /\ DOMAIN c.tf.sensors = {"s1", "s3"}
          /\ c.result = [i \in 1..Len(C18_Rows(c.req)) |->
                           [createdAt |-> C18_Rows(c.req)[i].createdAt,
                            value |-> C18_Rows(c.req)[i].value,
                            sensor_id |-> C18_Rows(c.req)[i].sensor_id]]

\* C18: of two multi-box exports in progress at once, whatever the order in which
\* their callbacks run, each has its own column set, sidecar and cursor rows and
\* writes what it writes when served alone, also when one uses the default
\* columns and the other its own
C18_Isolation == other # Absent => C18_AsAlone(Context) /\ C18_AsAlone(other)

C18_Witness ==
  /\ other # Absent /\ pc = "finished" /\ other.pc = "finished"
  /\ req.params["columns"] = Absent /\ other.req.params["columns"] # Absent
  /\ Len(sent) = 3 /\ Len(other.sent) = 2
  /\ other.reads = <<"Box.find", "Measurement.find">>

\* the date parameter is a comma-separated pair that is no valid window
C21_InvalidPair ==
  /\ req.handler = "findAllBoxes" /\ orUndefined(req.date) # Absent
  /\ Len(req.date.parts) = 2
  /\ ~ (/\ DOMAIN req.date.parts[1] = {"iso"} /\ DOMAIN req.date.parts[2] = {"iso"}
        /\ req.date.parts[1].iso < req.date.parts[2].iso)

\* C21 (as claimed): when the date parameter of findAllBoxes is a pair of which a
\* bound does not parse or the first is not strictly before the second, the
\* request is answered with an error and no storage query is issued
C21_InvalidPairRejected ==
  (C21_InvalidPair /\ pc # "idle")
    => pc = "rejected" /\ reads = <<>> /\ responses = <<>>

\* the records read from the cursor and not yet handed to the response: in the
\* batch the cursor holds, the cursor stream, the transformer and the stringifier
C22_InFlight == Len(batch) + Len(curBuf) + Len(trBuf) + Len(RecordsOf(strBuf))

\* C22: at every moment of an export the records read from the cursor and not
\* yet accepted by the sink number at most what one batch and the three stages
\* hold, however many rows the result has
C22_BoundedInFlight ==
  /\ C22_InFlight <= StagesHold
  /\ Len(batch) <= BatchSize

C22_Witness ==
  /\ Len(result) > StagesHold
  /\ C22_InFlight >= BatchSize + HighWaterMark
  /\ fetched < Len(result) /\ sink = "closed"

\* the boxes the selection returned, and the (box, sensor) positions in them
C23_Selection == BoxFind(pending.queryParams)
C23_Matching ==
  {<<i, j>> \in (1..Len(C23_Selection)) \X (1..2) :
     /\ j <= Len(C23_Selection[i].sensors)
     /\ C23_Selection[i].sensors[j].title = Trim(req.params["phenomenon"])}
\* the box of the whole collection that owns the sensor
C23_Owner(id) ==
  CHOOSE b \in {Boxes[k] : k \in 1..Len(Boxes)} :
    \E j \in 1..Len(b.sensors) : b.sensors[j]._id = id

\* C23: the sidecar of getDataMulti has an entry for exactly the sensors of the
\* selected boxes whose title is the trimmed phenomenon; an entry carries the id,
\* name and exposure of the box that owns the sensor and the sensor's own id and
\* title; it exists when the cursor is opened, after the one Box.find
C23_SidecarContent ==
  (IsMulti /\ tf # NoStage)
    => /\ DOMAIN tf.sensors = {C23_Selection[p[1]].sensors[p[2]]._id : p \in C23_Matching}
       /\ \A id \in DOMAIN tf.sensors :
            /\ tf.sensors[id].boxId = Str(C23_Owner(id)._id)
            /\ tf.sensors[id].boxName = C23_Owner(id).name
            /\ tf.sensors[id].exposure = C23_Owner(id).exposure
            /\ tf.sensors[id].sensorId = Str(id)
            /\ tf.sensors[id].phenomenon = Trim(req.params["phenomenon"])
       /\ reads = <<"Box.find", "Measurement.find">>

C23_Witness ==
  /\ IsMulti /\ tf # NoStage /\ DOMAIN tf.sensors = {"s3"}
  /\ req.params["exposure"] = Str("outdoor") /\ req.bbox = Absent

\* C24: the multi-box cursor selects by membership in the sidecar's keys, so every
\* row it delivers has a sidecar entry and the transform raises no lookup error;
\* with an empty sidecar it delivers no row and the finished export is the CSV
\* header alone
C24_CursorWithinSidecar ==
  (IsMulti /\ tf # NoStage)
    => /\ qry.sensor_id = DOMAIN tf.sensors
       /\ \A i \in 1..Len(result) : result[i].sensor_id \in DOMAIN tf.sensors
       /\ \A i \in 1..Len(store) :
            (/\ store[i].sensor_id \in DOMAIN tf.sensors
             /\ store[i].createdAt.date > qry.fromDate.moment
             /\ store[i].createdAt.date < qry.toDate.moment)
              => \E k \in 1..Len(result) : result[k].value = store[i].value
       /\ \A i \in 1..Len(notified) : notified[i].type # "TypeError"
       /\ DOMAIN tf.sensors = {}
            => /\ result = <<>>
               /\ pc = "finished" => Len(sent) = 1 /\ sent[1].kind = "header"

C24_Witness ==
  /\ IsMulti /\ tf # NoStage /\ DOMAIN tf.sensors = {} /\ pc = "finished"
  /\ Len(sent) = 1 /\ store # <<>>

\* C25: a bounding box (b0, b1, b2, b3) becomes one ring of five [lng, lat] points,
\* the last equal to the first, whose first four points are the corners of the box
\* (distinct when the box has an area), b0 and b2 the longitudes and b1 and b3 the
\* latitudes, and no id clause; a box-id list becomes membership of _id in the
\* split list and no spatial clause
C25_Corners(b) == {<<b[1], b[2]>>, <<b[1], b[4]>>, <<b[3], b[4]>>, <<b[3], b[2]>>}

C25_SpatialPredicate ==
  (IsMulti /\ reads # <<>>)
    => LET q == pending.queryParams IN
       IF req.bbox # Absent
       THEN LET b == req.bbox.bounds
                g == q.geometry.geoWithin
                ring == g.coordinates[1]
            IN /\ q.ids = Absent
               /\ g.type = "Polygon"
               /\ Len(g.coordinates) = 1
               /\ Len(ring) = 5
               /\ ring[5] = ring[1]
               /\ {ring[i] : i \in 1..4} = C25_Corners(b)
               /\ \A i \in 1..5 : ring[i][1] \in {b[1], b[3]} /\ ring[i][2] \in {b[2], b[4]}
               /\ (b[1] # b[3] /\ b[2] # b[4])
                    => Cardinality({ring[i] : i \in 1..4}) = 4
               /\ \A k \in 1..Len(Boxes) :
                    (\E i \in 1..Len(C23_Selection) : C23_Selection[i]._id = Boxes[k]._id)
                      => /\ Boxes[k].coordinates[1] \in b[1]..b[3]
                         /\ Boxes[k].coordinates[2] \in b[2]..b[4]
       ELSE /\ q.geometry = Absent
            /\ q.ids = [in |-> req.boxId.parts]

C25_Witness ==
  /\ IsMulti /\ reads # <<>> /\ req.bbox = [bounds |-> <<12, 51, 14, 53>>]
  /\ tf # NoStage /\ DOMAIN tf.sensors = {"s3"}

\* C26: a post to a box that does not exist has one outcome, the NotFound error,
\* with no save attempted and no 201 sent after it; on every path of the two post
\* handlers at most one of {response, next(error)} has occurred, and exactly one
\* once the request is over
C26_IsPost == req # Absent /\ req.handler \in {"postNewMeasurement", "postNewMeasurements"}

C26_SingleOutcome ==
  C26_IsPost
    => /\ Len(responses) + Len(nextCalls) <= 1
       /\ (\E i \in 1..Len(nextCalls) : nextCalls[i].type = "NotFoundError")
            => responses = <<>> /\ saved = <<>>
       /\ pc \in {"responded", "rejected"} => Len(responses) + Len(nextCalls) = 1

\* C27: with box coordinates stored [lng, lat], the lat of a sidecar entry, and of
\* every row the export fills from it, is coordinates[1] of the owning box and the
\* lng is coordinates[0], the convention of the bounding-box ring and of the
\* geojson output of findAllBoxes (here the stored pair is 1-indexed)
C27_LatLngConvention ==
  (IsMulti /\ tf # NoStage)
    => /\ \A id \in DOMAIN tf.sensors :
            /\ tf.sensors[id].lat = Num(C23_Owner(id).coordinates[2])
            /\ tf.sensors[id].lng = Num(C23_Owner(id).coordinates[1])
       /\ \A i \in 1..Len(trBuf) :
            ("lat" \in DOMAIN trBuf[i] /\ "lng" \in DOMAIN trBuf[i])
              => /\ trBuf[i]["lat"] = Num(C23_Owner(trBuf[i]["sensor_id"]).coordinates[2])
                 /\ trBuf[i]["lng"] = Num(C23_Owner(trBuf[i]["sensor_id"]).coordinates[1])

\* C28: with a finite cursor and a client that keeps reading, under weak fairness
\* of every stage, an export that passed validation reaches its end: every row of
\* the (capped) cursor has been written to the client, the serializer's terminal
\* output has been written, the response is ended and no stage holds a row
C28_Ended ==
  /\ pc = "finished" /\ ended = 4
  /\ batch = <<>> /\ curBuf = <<>> /\ trBuf = <<>> /\ strBuf = <<>> /\ resBuf = <<>>
  /\ fetched = Len(result)
  /\ ValuesOfChunks(sent) = ValuesOfRows(result)
  /\ sent # <<>>
  /\ IF sf.format = "csv"
     THEN sent[1].kind = "header"
          /\ (result # <<>> => sent[Len(sent)].kind = "line"
                               /\ sent[Len(sent)].row["value"] = result[Len(result)]["value"])
     ELSE sent[Len(sent)].kind = "close"

C28_ExportEnds == (pc \in {"boxFind", "streaming"}) ~> C28_Ended

C28_Witness == C28_Ended /\ Len(result) > StagesHold /\ IsMulti

====
